---- MODULE Spec2Model ----
(***************************************************************************)
(* Fund-release governance of the crowdfunding platform: the off-chain     *)
(* usage-request workflow (routes/api/usageRequests.js), the donation      *)
(* records it reads (routes/api/donations.js) and the reconciliation pass  *)
(* that overwrites the mirrored raised amount (syncCampaignStatuses).      *)
(*                                                                         *)
(* Amounts are REAL columns in the database; here they are whole numbers   *)
(* of the smallest unit, so sums and comparisons are exact.                *)
(***************************************************************************)
EXTENDS Integers, FiniteSets, Sequences, TLC

\* ---------------------------------------------------------------- bounds
\* Cap on a campaign's mirrored raised amount and on the recorded donations.
MaxRaised == 3
\* Cap on the number of usage_requests rows.
MaxRequests == 2
\* The same two caps while the votes of three donors are explored.
MaxVoteRaised == 4
MaxVoteRequests == 1
\* Cap on the usage_requests rows while the reconciliation pass is explored.
MaxMirrorRequests == 1
\* Caps on the ledger contract: campaigns created, wei pledged to a campaign,
\* withdrawal requests of a campaign, and the block timestamp.
MaxCampaigns == 1
MaxPledged == 3
MaxWithdrawalRequests == 1
MaxTime == 2
\* Cap on the ether the contract holds beyond its books.
MaxSurplus == 1
\* Cap on the calls a recipient makes back into the contract that go through
\* during one value transfer.
MaxNested == 2
\* Caps on the reconciliation: campaign rows linked to the ledger, ticks of
\* the interval timer, calls of the manual trigger.
MaxLinked == 2
MaxTicks == 2
MaxManual == 1

\* ------------------------------------------------------------- constants
\* A field of a response that does not apply.
NONE == "none"

\* A nullable REAL column holds <<>> (NULL) or <<x>>.
NULL == <<>>

STATUS_OPTIONS == {"PENDING", "APPROVED", "REJECTED", "SPENT"}

\* users rows: one fundraiser, three donors, the default administrator.
Users == {"owner", "d1", "d2", "d3", "admin"}

\* campaigns rows; campaign creation is outside the modelled core.
Campaigns == {1}

\* campaigns.creator_id
creator_id(c) == "owner"

\* req.user.isAdmin, set by the auth middleware from users.role.
isAdmin(u) == u = "admin"

\* Amounts a client may send as requestedAmount / actualAmount.
AmountInputs == 0 .. (MaxRaised + 1)

\* Amounts a client sends to POST /api/donations: isNumeric() lets 0 through
\* (and negative amounts, which are not drawn here).
DonationInputs == {0, 1, 2}

VARIABLES
  current_amount,   \* campaigns.current_amount, per campaign id
  donations,        \* donations table, aggregated per (campaign_id, donor_id)
  usage_requests,   \* usage_requests table: sequence of rows, id = index
  usage_votes,      \* usage_votes table: set of rows
  response,         \* the last HTTP response sent (or evaluator run)
  handlers,         \* in-flight POST /api/usage-requests handlers
  chain,            \* storage and balance of the CrowdFunding contract
  timestamp,        \* block.timestamp
  receipt,          \* outcome of the last transaction sent to the contract
  callStack,        \* the value transfer in progress, if any (<<>> or <<frame>>)
  sync,             \* the reconciliation: mirrored campaign rows, blockchainCache,
                    \* the clock and timers, the passes in flight
  eligibility       \* a withdrawal eligibility check: the ledger's campaign, the
                    \* time, the function that answered and its report

\* The database and the server's handlers.
dbVars == <<current_amount, donations, usage_requests, usage_votes, response, handlers,
           sync, eligibility>>

\* The ledger contract and its clock.
chainVars == <<chain, timestamp, receipt, callStack>>

vars == <<current_amount, donations, usage_requests, usage_votes, response, handlers,
          chain, timestamp, receipt, callStack, sync, eligibility>>

\* ------------------------------------------------------------- helpers
Max(a, b) == IF a >= b THEN a ELSE b

RECURSIVE SumSet(_, _)
\* SUM over the rows S of the column f (a function on S).
SumSet(S, f) ==
  IF S = {} THEN 0
  ELSE LET x == CHOOSE y \in S : TRUE
       IN f[x] + SumSet(S \ {x}, f)

\* parseFloat(value), 0 when the result is not finite (null gives NaN), on a
\* nullable column; on the NOT NULL amounts, kept as plain numbers, it is the
\* identity and is not written out.
normalizeNumber(value) == IF value = NULL THEN 0 ELSE value[1]

\* SELECT COUNT(DISTINCT donor_id), COALESCE(SUM(amount), 0) FROM donations
\* WHERE campaign_id = ?
getDonationSummary(don, campaignId) ==
  [ totalDonors |-> Cardinality({u \in Users : don[campaignId][u].rows}),
    totalAmount |-> SumSet(Users, [u \in Users |-> don[campaignId][u].total]) ]

\* SELECT COALESCE(SUM(amount), 0) ... WHERE campaign_id = ? AND donor_id = ?
donatedBy(don, userId, campaignId) == don[campaignId][userId].total

\* Variant: a recorded total of zero already makes a donor.
isCampaignDonorLoose(don, userId, campaignId) ==
  donatedBy(don, userId, campaignId) >= 0

\* isCampaignDonor(userId, campaignId): the caller's donations sum to more than 0.
isCampaignDonor(don, userId, campaignId) ==
  donatedBy(don, userId, campaignId) > 0

\* ------------------------------------------------- Ledger Accountant
\* Variant: a SPENT row no longer counts towards totalApproved.
usageTotalsSpentNotApproved(reqs, campaignId) ==
  LET idx == {i \in DOMAIN reqs : reqs[i].campaign_id = campaignId}
      requested == [i \in idx |-> reqs[i].requested_amount]
      actual == [i \in idx |->
                   IF reqs[i].actual_amount # NULL
                   THEN normalizeNumber(reqs[i].actual_amount)
                   ELSE requested[i]]
      spent == {i \in idx : reqs[i].status = "SPENT"}
      approved == {i \in idx : reqs[i].status = "APPROVED"}
      pending == {i \in idx : reqs[i].status = "PENDING"}
  IN [ totalSpent |-> SumSet(spent, actual),
       totalApproved |-> SumSet(approved, requested),
       totalPending |-> SumSet(pending, requested) ]

\* The forEach over the campaign's usage rows.
usageTotals(reqs, campaignId) ==
  LET idx == {i \in DOMAIN reqs : reqs[i].campaign_id = campaignId}
      requested == [i \in idx |-> reqs[i].requested_amount]
      actual == [i \in idx |->
                   IF reqs[i].actual_amount # NULL
                   THEN normalizeNumber(reqs[i].actual_amount)
                   ELSE requested[i]]
      spent == {i \in idx : reqs[i].status = "SPENT"}
      approved == {i \in idx : reqs[i].status = "APPROVED"}
      pending == {i \in idx : reqs[i].status = "PENDING"}
  IN [ totalSpent |-> SumSet(spent, actual),
       totalApproved |-> SumSet(spent, requested) + SumSet(approved, requested),
       totalPending |-> SumSet(pending, requested) ]

\* Variant: remainingBalance without the Math.max(..., 0) around it.
finishSummaryNoClamp(totalRaised, totals) ==
  LET outstandingApproved == Max(totals.totalApproved - totals.totalSpent, 0)
      committed == totals.totalSpent + outstandingApproved + totals.totalPending
  IN [ totalRaised |-> totalRaised,
       totalSpent |-> totals.totalSpent,
       totalApproved |-> totals.totalApproved,
       totalPending |-> totals.totalPending,
       outstandingApproved |-> outstandingApproved,
       remainingBalance |-> totalRaised - committed ]

\* outstandingApproved, committed and remainingBalance from the totals.
finishSummary(totalRaised, totals) ==
  LET outstandingApproved == Max(totals.totalApproved - totals.totalSpent, 0)
      committed == totals.totalSpent + outstandingApproved + totals.totalPending
  IN [ totalRaised |-> totalRaised,
       totalSpent |-> totals.totalSpent,
       totalApproved |-> totals.totalApproved,
       totalPending |-> totals.totalPending,
       outstandingApproved |-> outstandingApproved,
       remainingBalance |-> Max(totalRaised - committed, 0) ]

calculateUsageFinancials(amounts, reqs, campaignId) ==
  finishSummary(amounts[campaignId], usageTotals(reqs, campaignId))

\* ------------------------------------------------- auto-approval
\* Variant: a rate of exactly one half passes.
rateAtLeastHalf(num, den) == IF den > 0 THEN 2 * num >= den ELSE FALSE

\* Variant: a rate above two thirds is asked for.
rateAboveTwoThirds(num, den) == IF den > 0 THEN 3 * num > 2 * den ELSE FALSE

\* num / den > 0.5 with the rate taken as 0 when den is not positive
\* (totalDonors > 0 ? approvals / totalDonors : 0).
rateAboveHalf(num, den) == IF den > 0 THEN 2 * num > den ELSE FALSE

approvalsOf(votes, requestId) ==
  Cardinality({v \in votes : v.usage_request_id = requestId /\ v.vote = 1})

approvedWeightedOf(votes, requestId) ==
  LET rows == {v \in votes : v.usage_request_id = requestId /\ v.vote = 1}
  IN SumSet(rows, [v \in rows |-> v.donated_amount])

\* Variant: without the early return on a status other than PENDING.
maybeAutoApproveUnguarded(reqs, votes, don, requestId) ==
  LET request == reqs[requestId]
      s == getDonationSummary(don, request.campaign_id)
  IN IF s.totalDonors = 0 THEN reqs
     ELSE IF \/ rateAboveHalf(approvalsOf(votes, requestId), s.totalDonors)
             \/ rateAboveHalf(approvedWeightedOf(votes, requestId), s.totalAmount)
          THEN [reqs EXCEPT ![requestId].status = "APPROVED"]
          ELSE reqs

\* maybeAutoApprove(requestId) on the tables it reads: the usage rows it leaves.
maybeAutoApprove(reqs, votes, don, requestId) ==
  LET request == reqs[requestId]
      s == getDonationSummary(don, request.campaign_id)
  IN IF request.status # "PENDING" THEN reqs
     ELSE IF s.totalDonors = 0 THEN reqs
     ELSE IF \/ rateAboveHalf(approvalsOf(votes, requestId), s.totalDonors)
             \/ rateAboveHalf(approvedWeightedOf(votes, requestId), s.totalAmount)
          THEN [reqs EXCEPT ![requestId].status = "APPROVED"]
          ELSE reqs

\* Variant: a plain INSERT, with no conflict clause and no unique key.
insertVote(votes, row) == votes \cup {row}

\* INSERT INTO usage_votes ... ON CONFLICT(usage_request_id, donor_id) DO UPDATE
upsertVote(votes, row) ==
  {v \in votes : ~(v.usage_request_id = row.usage_request_id /\ v.donor_id = row.donor_id)}
    \cup {row}

\* ------------------------------------------------------------- responses
\* What the handler answers: the route, the HTTP status, which check failed and
\* the figure the body carries (remainingBalance, requestedAmount, available,
\* or the id of the created row).
Reply(op, code, error, info) ==
  [op |-> op, code |-> code, error |-> error, info |-> info]

\* A handler of POST /api/usage-requests between two of its awaits.
Idle == [pc |-> "idle", user |-> NONE, campaign |-> 0, requestedAmount |-> 0,
         totalRaised |-> 0]

Handlers == {"h1", "h2"}

\* ------------------------------------------------- ledger contract
\* CrowdFunding.sol. A transaction runs to its end or reverts as a whole; the
\* only external calls are the value transfers at the end of withdraw,
\* executeWithdrawal and refund, after which the contract writes nothing more,
\* so a call made by the recipient while it is being paid has the effect of a
\* transaction of its own sent right after.

\* msg.sender: the campaign creator and two other accounts.
Wallets == {"creator", "donorA", "donorB"}

\* Campaign ids a caller may name.
CampaignIds == 1 .. MaxCampaigns

\* Request ids a caller may name (one past the last possible: no such request).
WithdrawalRequestIds == 1 .. (MaxWithdrawalRequests + 1)

\* msg.value of donateToCampaign, _goal, _deadline, _amount and
\* _minApprovalPercentage as callers may send them.
ValueInputs == 0 .. 2
GoalInputs == {0, 2}
DeadlineInputs == {0, 1}
WeiInputs == 0 .. (MaxPledged + 1)
PercentageInputs == {0, 1, 50, 51, 100, 101}

\* What the sender sees of a transaction: the function, whether it went
\* through, and the revert reason.
Receipt(fn, ok, reason) == [fn |-> fn, ok |-> ok, reason |-> reason]

\* A freshly deployed contract: campaignCount = 0, every mapping at its default.
ChainInit ==
  /\ chain = [campaigns |-> <<>>,
              contributions |-> [id \in CampaignIds |-> [a \in Wallets |-> 0]],
              withdrawalRequests |-> [id \in CampaignIds |-> <<>>],
              balance |-> 0]
  /\ timestamp = 0
  /\ receipt = Receipt("none", TRUE, NONE)
  /\ callStack = <<>>

\* revert(reason): the storage and the balance are those before the call.
Revert(c, fn, reason) == [chain |-> c, receipt |-> Receipt(fn, FALSE, reason)]

Success(c, fn) == [chain |-> c, receipt |-> Receipt(fn, TRUE, NONE)]

\* modifier campaignExists(_id)
campaignExists(c, id) == id \in DOMAIN c.campaigns

\* withdrawalRequests[_campaignId][_requestId].exists
requestExists(c, id, requestId) == requestId \in DOMAIN c.withdrawalRequests[id]

\* c.pledged - c.totalWithdrawn
getAvailableBalance(c, id) == c.campaigns[id].pledged - c.campaigns[id].totalWithdrawn

\* createCampaign(_title, _description, _goal, _deadline)
createCampaignOutcome(c, now, sender, goal, deadline) ==
  IF ~(goal > 0) THEN Revert(c, "createCampaign", "Goal must be > 0")
  ELSE IF ~(deadline > now) THEN Revert(c, "createCampaign", "Deadline must be in future")
  ELSE Success([c EXCEPT !.campaigns =
                  Append(@, [creator |-> sender, goal |-> goal, pledged |-> 0,
                             deadline |-> deadline, withdrawn |-> FALSE,
                             totalWithdrawn |-> 0])],
               "createCampaign")

\* donateToCampaign(_id) payable
donateOutcome(c, now, sender, id, value) ==
  IF ~campaignExists(c, id) THEN Revert(c, "donateToCampaign", "Campaign does not exist")
  ELSE IF ~(now <= c.campaigns[id].deadline)
  THEN Revert(c, "donateToCampaign", "Campaign has ended")
  ELSE IF ~(value > 0) THEN Revert(c, "donateToCampaign", "Must send ETH")
  ELSE Success([c EXCEPT !.campaigns[id].pledged = @ + value,
                         !.contributions[id][sender] = @ + value,
                         !.balance = @ + value],
               "donateToCampaign")

\* The reason given when the value transfer of fn fails.
transferFailure(fn) ==
  IF fn = "refund" THEN "Failed to send refund" ELSE "Failed to send funds"

\* Variant: a failed transfer leaves the writes made before it in place.
failedTransferKeepsWrites(before, after, fn) ==
  [chain |-> after, receipt |-> Receipt(fn, FALSE, transferFailure(fn))]

\* if (!sent) { ...undo the writes made before the call...; revert(...); }
failedTransfer(before, after, fn) == Revert(before, fn, transferFailure(fn))

\* withdraw(_id); sent is what c.creator.call{value: amount}("") returns.
withdrawOutcome(c, now, sender, id, sent) ==
  IF ~campaignExists(c, id) THEN Revert(c, "withdraw", "Campaign does not exist")
  ELSE LET cam == c.campaigns[id]
           amount == cam.pledged - cam.totalWithdrawn
           paid == [c EXCEPT !.campaigns[id].withdrawn = TRUE,
                             !.campaigns[id].totalWithdrawn = cam.pledged]
       IN IF sender # cam.creator THEN Revert(c, "withdraw", "Not campaign creator")
          ELSE IF cam.withdrawn THEN Revert(c, "withdraw", "Already withdrawn")
          ELSE IF ~(cam.pledged >= cam.goal) THEN Revert(c, "withdraw", "Goal not reached")
          ELSE IF ~(now > cam.deadline) THEN Revert(c, "withdraw", "Deadline not yet reached")
          ELSE IF amount < 0 THEN Revert(c, "withdraw", "Panic(0x11)")
          ELSE IF ~(amount > 0) THEN Revert(c, "withdraw", "No funds available")
          ELSE IF sent /\ c.balance >= amount
          THEN Success([paid EXCEPT !.balance = @ - amount], "withdraw")
          ELSE failedTransfer(c, paid, "withdraw")

\* Variant: the division by 100 rounds up.
approvalThresholdRoundedUp(pledged, percentage) == (pledged * percentage + 99) \div 100

\* (c.pledged * _minApprovalPercentage) / 100
approvalThreshold(pledged, percentage) == (pledged * percentage) \div 100

\* Variant: only the lower end of the percentage is checked.
validPercentageNoUpperEnd(percentage) == percentage > 0

\* _minApprovalPercentage > 0 && _minApprovalPercentage <= 100
validPercentage(percentage) == percentage > 0 /\ percentage <= 100

\* Variant: the campaign's own remaining funds are not compared with the amount.
campaignCoversAnything(cam, amount) == TRUE

\* c.pledged - c.totalWithdrawn >= amount
campaignCovers(cam, amount) == cam.pledged - cam.totalWithdrawn >= amount

\* The request written by requestWithdrawal.
newWithdrawalRequest(amount, threshold) ==
  [amount |-> amount, approvalThreshold |-> threshold, approvalsReceived |-> 0,
   rejectionReceived |-> 0, executed |-> FALSE, hasVoted |-> {}]

\* requestWithdrawal(_campaignId, _amount, _usageDetails, _minApprovalPercentage)
requestWithdrawalOutcome(c, now, sender, id, amount, percentage) ==
  IF ~campaignExists(c, id) THEN Revert(c, "requestWithdrawal", "Campaign does not exist")
  ELSE LET cam == c.campaigns[id]
           threshold == approvalThreshold(cam.pledged, percentage)
       IN IF sender # cam.creator
          THEN Revert(c, "requestWithdrawal", "Not campaign creator")
          ELSE IF ~(cam.pledged >= cam.goal)
          THEN Revert(c, "requestWithdrawal", "Goal not reached")
          ELSE IF ~(now > cam.deadline)
          THEN Revert(c, "requestWithdrawal", "Deadline not yet reached")
          ELSE IF ~(amount > 0) THEN Revert(c, "requestWithdrawal", "Amount must be > 0")
          ELSE IF ~validPercentage(percentage)
          THEN Revert(c, "requestWithdrawal", "Invalid percentage")
          ELSE IF cam.pledged - cam.totalWithdrawn < 0
          THEN Revert(c, "requestWithdrawal", "Panic(0x11)")
          ELSE IF ~campaignCovers(cam, amount)
          THEN Revert(c, "requestWithdrawal", "Insufficient funds available")
          ELSE IF ~(threshold > 0) THEN Revert(c, "requestWithdrawal", "Threshold too low")
          ELSE Success([c EXCEPT !.withdrawalRequests[id] =
                          Append(@, newWithdrawalRequest(amount, threshold))],
                       "requestWithdrawal")

\* Variant: an address that has voted may vote again.
mayCastAgain(request, sender) == TRUE

\* require(!request.hasVoted[msg.sender], "Already voted")
mayCast(request, sender) == sender \notin request.hasVoted

\* The checks approveWithdrawal and rejectWithdrawal share: the revert reason,
\* or NONE when the vote is admitted.
castRefusal(c, sender, id, requestId) ==
  IF ~campaignExists(c, id) THEN "Campaign does not exist"
  ELSE IF ~(c.contributions[id][sender] > 0) THEN "Not a donor"
  ELSE IF ~requestExists(c, id, requestId) THEN "Request does not exist"
  ELSE IF c.withdrawalRequests[id][requestId].executed THEN "Request already executed"
  ELSE IF ~mayCast(c.withdrawalRequests[id][requestId], sender) THEN "Already voted"
  ELSE NONE

\* approveWithdrawal(_campaignId, _requestId)
approveWithdrawalOutcome(c, sender, id, requestId) ==
  IF castRefusal(c, sender, id, requestId) # NONE
  THEN Revert(c, "approveWithdrawal", castRefusal(c, sender, id, requestId))
  ELSE Success([c EXCEPT !.withdrawalRequests[id][requestId].hasVoted = @ \cup {sender},
                         !.withdrawalRequests[id][requestId].approvalsReceived =
                            @ + c.contributions[id][sender]],
               "approveWithdrawal")

\* Variant: a rejection also raises the request's threshold by the rejecting
\* contribution.
rejectWithdrawalOutcomeRaisingThreshold(c, sender, id, requestId) ==
  IF castRefusal(c, sender, id, requestId) # NONE
  THEN Revert(c, "rejectWithdrawal", castRefusal(c, sender, id, requestId))
  ELSE Success([c EXCEPT !.withdrawalRequests[id][requestId].hasVoted = @ \cup {sender},
                         !.withdrawalRequests[id][requestId].rejectionReceived =
                            @ + c.contributions[id][sender],
                         !.withdrawalRequests[id][requestId].approvalThreshold =
                            @ + c.contributions[id][sender]],
               "rejectWithdrawal")

\* rejectWithdrawal(_campaignId, _requestId)
rejectWithdrawalOutcome(c, sender, id, requestId) ==
  IF castRefusal(c, sender, id, requestId) # NONE
  THEN Revert(c, "rejectWithdrawal", castRefusal(c, sender, id, requestId))
  ELSE Success([c EXCEPT !.withdrawalRequests[id][requestId].hasVoted = @ \cup {sender},
                         !.withdrawalRequests[id][requestId].rejectionReceived =
                            @ + c.contributions[id][sender]],
               "rejectWithdrawal")

\* Variant: one wei short of the threshold is enough.
hasEnoughApprovalsShortByOne(request) ==
  request.approvalsReceived + 1 >= request.approvalThreshold

\* Variant: rejections are taken off the approvals before the comparison.
hasEnoughApprovalsNetOfRejections(request) ==
  request.approvalsReceived - request.rejectionReceived >= request.approvalThreshold

\* require(request.approvalsReceived >= request.approvalThreshold, ...)
hasEnoughApprovals(request) == request.approvalsReceived >= request.approvalThreshold

\* Variant: a request that was executed may be executed again.
notYetExecutedIgnored(request) == TRUE

\* require(!request.executed, "Request already executed")
notYetExecuted(request) == ~request.executed

\* executeWithdrawal(_campaignId, _requestId); sent is what
\* c.creator.call{value: request.amount}("") returns.
executeWithdrawalOutcome(c, sender, id, requestId, sent) ==
  IF ~campaignExists(c, id) THEN Revert(c, "executeWithdrawal", "Campaign does not exist")
  ELSE IF sender # c.campaigns[id].creator
  THEN Revert(c, "executeWithdrawal", "Not campaign creator")
  ELSE IF ~requestExists(c, id, requestId)
  THEN Revert(c, "executeWithdrawal", "Request does not exist")
  ELSE LET cam == c.campaigns[id]
           request == c.withdrawalRequests[id][requestId]
           paid == [c EXCEPT !.withdrawalRequests[id][requestId].executed = TRUE,
                             !.campaigns[id].totalWithdrawn = @ + request.amount]
       IN IF ~notYetExecuted(request)
          THEN Revert(c, "executeWithdrawal", "Request already executed")
          ELSE IF ~hasEnoughApprovals(request)
          THEN Revert(c, "executeWithdrawal", "Insufficient approvals")
          ELSE IF ~(c.balance >= request.amount)
          THEN Revert(c, "executeWithdrawal", "Insufficient contract balance")
          ELSE IF cam.pledged - cam.totalWithdrawn < 0
          THEN Revert(c, "executeWithdrawal", "Panic(0x11)")
          ELSE IF ~campaignCovers(cam, request.amount)
          THEN Revert(c, "executeWithdrawal", "Insufficient campaign balance")
          ELSE IF sent
          THEN Success([paid EXCEPT !.balance = @ - request.amount], "executeWithdrawal")
          ELSE failedTransfer(c, paid, "executeWithdrawal")

\* Variant: refunds are paid whether or not the goal was reached.
goalMissedNotRequired(cam) == TRUE

\* require(c.pledged < c.goal, "Goal was reached, no refunds")
goalMissed(cam) == cam.pledged < cam.goal

\* Variant: the refund leaves the pledged total as it was.
refundWritesKeepingPledged(c, id, sender, contribution) ==
  [c EXCEPT !.contributions[id][sender] = 0]

\* contributions[_id][msg.sender] = 0; c.pledged -= contribution;
refundWrites(c, id, sender, contribution) ==
  [c EXCEPT !.contributions[id][sender] = 0,
            !.campaigns[id].pledged = @ - contribution]

\* refund(_id); sent is what msg.sender.call{value: contribution}("") returns.
refundOutcome(c, now, sender, id, sent) ==
  IF ~campaignExists(c, id) THEN Revert(c, "refund", "Campaign does not exist")
  ELSE LET cam == c.campaigns[id]
           contribution == c.contributions[id][sender]
           paid == refundWrites(c, id, sender, contribution)
       IN IF ~(now > cam.deadline) THEN Revert(c, "refund", "Deadline not passed")
          ELSE IF ~goalMissed(cam)
          THEN Revert(c, "refund", "Goal was reached, no refunds")
          ELSE IF ~(contribution > 0) THEN Revert(c, "refund", "No contribution to refund")
          ELSE IF sent /\ c.balance >= contribution
          THEN Success([paid EXCEPT !.balance = @ - contribution], "refund")
          ELSE failedTransfer(c, paid, "refund")

\* A transaction is mined: the contract and the receipt take its outcome.
Transact(out) ==
  /\ chain' = out.chain
  /\ receipt' = out.receipt
  /\ UNCHANGED <<timestamp, callStack, dbVars>>

CreateCampaign(sender, goal, deadline) ==
  Transact(createCampaignOutcome(chain, timestamp, sender, goal, deadline))

DonateToCampaign(sender, id, value) ==
  Transact(donateOutcome(chain, timestamp, sender, id, value))

Withdraw(sender, id, sent) ==
  Transact(withdrawOutcome(chain, timestamp, sender, id, sent))

RequestWithdrawal(sender, id, amount, percentage) ==
  Transact(requestWithdrawalOutcome(chain, timestamp, sender, id, amount, percentage))

ApproveWithdrawal(sender, id, requestId) ==
  Transact(approveWithdrawalOutcome(chain, sender, id, requestId))

RejectWithdrawal(sender, id, requestId) ==
  Transact(rejectWithdrawalOutcome(chain, sender, id, requestId))

ExecuteWithdrawal(sender, id, requestId, sent) ==
  Transact(executeWithdrawalOutcome(chain, sender, id, requestId, sent))

Refund(sender, id, sent) ==
  Transact(refundOutcome(chain, timestamp, sender, id, sent))

\* What the campaigns' books say the contract holds: the sum over the
\* campaigns of pledged - totalWithdrawn.
bookBalance(c) ==
  SumSet(DOMAIN c.campaigns, [id \in DOMAIN c.campaigns |-> getAvailableBalance(c, id)])

\* Ether reaches the contract's address outside its functions (a
\* self-destructing contract or a block reward names it as beneficiary):
\* address(this).balance grows, the books do not.
ReceiveForcedEther ==
  /\ chain.balance - bookBalance(chain) < MaxSurplus
  /\ chain' = [chain EXCEPT !.balance = @ + 1]
  /\ UNCHANGED <<timestamp, receipt, callStack, dbVars>>

\* A later block: block.timestamp grows.
Mine ==
  /\ timestamp < MaxTime
  /\ timestamp' = timestamp + 1
  /\ UNCHANGED <<chain, receipt, callStack, dbVars>>

\* ------------------------------------------------- reconciliation
\* syncCampaignStatuses (utils/blockchainSync). Time is in seconds.

\* const SYNC_INTERVAL = 5 * 60 * 1000 (milliseconds).
SYNC_INTERVAL == 300

\* setTimeout(syncCampaignStatuses, 5000).
STARTUP_DELAY == 5

\* campaigns rows with a blockchain_campaign_id, in the order of the SELECT.
LinkedCampaigns == 1 .. MaxLinked

\* The instants at which something is observed: the start, the startup
\* timeout and the timer ticks, and one second after each.
Instants ==
  {0, STARTUP_DELAY, STARTUP_DELAY + 1}
    \cup {k * SYNC_INTERVAL + d : k \in 1 .. MaxTicks, d \in {0, 1}}

\* A uint256 amount of wei near a whole number of ether: ether * 10^18 + wei,
\* with wei a few units either way (never below zero in all).
Wei(ether, wei) == [ether |-> ether, wei |-> wei]

\* a < b on the ledger's integers.
weiLess(a, b) == a.ether < b.ether \/ (a.ether = b.ether /\ a.wei < b.wei)

\* parseFloat(web3.utils.fromWei(x, 'ether')), and the same text stored in a
\* REAL column: fromWei writes the exact decimal, and the nearest double to
\* it is the whole number of ether as soon as there is one (the doubles next
\* to 1 are 1 - 2^-53 and 1 + 2^-52, some 111 and 222 wei away); below one
\* ether a few wei are a double of their own.
parseFloatEther(x) == IF x.ether >= 1 THEN Wei(x.ether, 0) ELSE x

\* What contract.methods.campaigns(id).call() may give: it throws, the ledger
\* has no such campaign (exists = false), or the campaign's fields. A
\* withdrawn campaign has reached its goal.
OneEther == Wei(1, 0)
SyncLedgerAnswers ==
  {[kind |-> k, goal |-> OneEther, pledged |-> Wei(0, 0), deadline |-> 0,
    withdrawn |-> FALSE] : k \in {"throws", "absent"}}
    \cup {a \in [kind : {"found"}, goal : {OneEther},
                  pledged : {Wei(1, -1), OneEther},
                  deadline : {100, 10000}, withdrawn : BOOLEAN] :
            a.withdrawn => ~weiLess(a.pledged, a.goal)}

\* Variant: the goal test on the ledger's integers.
goalMetExactly(pledged, goal) == ~weiLess(pledged, goal)

\* const goalMet = parseFloat(pledged) >= parseFloat(goal)
goalMet(pledged, goal) == ~weiLess(parseFloatEther(pledged), parseFloatEther(goal))

\* let status = 'active'; if (withdrawn) ... else if (deadlinePassed) ...
deriveStatus(answer, now) ==
  IF answer.withdrawn THEN "completed"
  ELSE IF answer.deadline < now
  THEN IF goalMet(answer.pledged, answer.goal) THEN "completed" ELSE "failed"
  ELSE "active"

\* The columns the UPDATE campaigns SET ... writes.
mirrorRow(answer, now) ==
  [blockchain_goal |-> parseFloatEther(answer.goal),
   current_amount |-> parseFloatEther(answer.pledged),
   deadline |-> answer.deadline,
   status |-> deriveStatus(answer, now),
   is_withdrawn |-> IF answer.withdrawn THEN 1 ELSE 0]

\* What the pass did for a campaign of its batch.
NoResults == [c \in LinkedCampaigns |-> "pending"]

\* A pass between two of its awaits: where it waits (the SELECT, the ledger
\* lookup or the UPDATE of campaign i of the batch), the row the UPDATE
\* carries, and what was done for each campaign so far.
PassFrame(pc, i, row, results) == [pc |-> pc, i |-> i, row |-> row, results |-> results]

\* The server right after it started: rows as approved campaigns have them,
\* an empty blockchainCache, both timers armed.
SyncInit ==
  sync = [mirror |-> [c \in LinkedCampaigns |->
                        [blockchain_goal |-> OneEther, current_amount |-> Wei(0, 0),
                         deadline |-> 100, status |-> "active", is_withdrawn |-> 0]],
          isSyncing |-> FALSE,
          lastSync |-> NULL,
          clock |-> 0,
          nextTick |-> SYNC_INTERVAL,
          startupPending |-> TRUE,
          manualCalls |-> 0,
          passes |-> <<>>,
          lastCall |-> "none",
          lastPass |-> [ended |-> "none", results |-> NoResults]]

\* Variant: the in-flight flag is not consulted.
skipsInFlightNever(s) == FALSE

\* if (blockchainCache.isSyncing) return;
skipsInFlight(s) == s.isSyncing

\* if (lastSync && Date.now() - lastSync < SYNC_INTERVAL) return;
skipsRecent(s) == s.lastSync # NULL /\ s.clock - s.lastSync[1] < SYNC_INTERVAL

\* syncCampaignStatuses() up to its first await.
invokeSync(s) ==
  IF skipsInFlight(s) THEN [s EXCEPT !.lastCall = "skipped_in_flight"]
  ELSE IF skipsRecent(s) THEN [s EXCEPT !.lastCall = "skipped_recent"]
  ELSE [s EXCEPT !.isSyncing = TRUE,
                 !.lastCall = "started",
                 !.passes = Append(@, PassFrame("select", 0, NULL, NoResults))]

\* The sequence without its k-th element.
RemoveAt(seq, k) == [j \in 1 .. (Len(seq) - 1) |-> IF j < k THEN seq[j] ELSE seq[j + 1]]

\* The pass leaves through finally: isSyncing = false; lastSync is set when
\* the loop ran to its end.
endPass(s, k, ended, results) ==
  [s EXCEPT !.isSyncing = FALSE,
            !.lastSync = IF ended = "completed" THEN <<s.clock>> ELSE @,
            !.passes = RemoveAt(@, k),
            !.lastPass = [ended |-> ended, results |-> results]]

\* Variant: a campaign that fails ends the loop.
nextCampaignStopOnFailure(s, k, result) ==
  LET frame == s.passes[k]
      results == [frame.results EXCEPT ![frame.i] = result]
  IN IF frame.i = MaxLinked \/ result # "written"
     THEN endPass(s, k, "completed", results)
     ELSE [s EXCEPT !.passes[k] = PassFrame("lookup", frame.i + 1, NULL, results)]

\* The for loop moves on after campaign i: to the lookup of the next
\* campaign, or out of the loop.
nextCampaign(s, k, result) ==
  LET frame == s.passes[k]
      results == [frame.results EXCEPT ![frame.i] = result]
  IN IF frame.i = MaxLinked
     THEN endPass(s, k, "completed", results)
     ELSE [s EXCEPT !.passes[k] = PassFrame("lookup", frame.i + 1, NULL, results)]

\* The SELECT of the linked campaigns resolves with the rows or rejects.
selectReturns(s, k, ok) ==
  IF ok THEN [s EXCEPT !.passes[k] = PassFrame("lookup", 1, NULL, s.passes[k].results)]
  ELSE endPass(s, k, "select_failed", s.passes[k].results)

\* Variant: a campaign the ledger does not know is written as failed.
lookupReturnsAssumingFailed(s, k, answer) ==
  IF answer.kind = "throws" THEN nextCampaign(s, k, "threw")
  ELSE IF answer.kind = "absent"
  THEN [s EXCEPT !.passes[k].pc = "update",
                 !.passes[k].row = [s.mirror[s.passes[k].i] EXCEPT !.status = "failed"]]
  ELSE [s EXCEPT !.passes[k].pc = "update", !.passes[k].row = mirrorRow(answer, s.clock)]

\* contract.methods.campaigns(id).call() settles for campaign i.
lookupReturns(s, k, answer) ==
  IF answer.kind = "throws" THEN nextCampaign(s, k, "threw")
  ELSE IF answer.kind = "absent" THEN nextCampaign(s, k, "absent")
  ELSE [s EXCEPT !.passes[k].pc = "update", !.passes[k].row = mirrorRow(answer, s.clock)]

\* The UPDATE campaigns ... WHERE id = ? settles for campaign i.
updateReturns(s, k, ok) ==
  IF ok
  THEN nextCampaign([s EXCEPT !.mirror[s.passes[k].i] = s.passes[k].row], k, "written")
  ELSE nextCampaign(s, k, "update_failed")

\* ---------------------------------------------------- eligibility
\* The withdrawal eligibility checks of utils/blockchain and
\* utils/withdrawalHelper. JavaScript values carry their type.
JsString(x) == [type |-> "string", value |-> x]
JsNumber(x) == [type |-> "number", value |-> x]
JsBoolean(b) == [type |-> "boolean", value |-> b]
JsUndefined == [type |-> "undefined"]

\* Campaigns as the ledger holds them (amounts in wei, deadline in seconds)
\* and the times of a check (seconds).
EligibilityLedgers ==
  {l \in [goal : {OneEther, Wei(2, 0)},
          pledged : {Wei(0, 0), Wei(0, 1), Wei(1, -1), OneEther, Wei(2, 0)},
          deadline : {100, 10000},
          withdrawn : BOOLEAN] :
     l.withdrawn => ~weiLess(l.pledged, l.goal)}
EligibilityInstants == {50, 500}

\* getCampaignFromBlockchain of utils/blockchain.js: the object has goal,
\* pledged, deadline and withdrawn; it has no amountRaised or isWithdrawn.
getCampaignFromBlockchain(ledger) ==
  [goal |-> JsString(ledger.goal),
   pledged |-> JsString(ledger.pledged),
   deadline |-> ledger.deadline * 1000,
   withdrawn |-> JsBoolean(ledger.withdrawn),
   amountRaised |-> JsUndefined,
   isWithdrawn |-> JsUndefined]

\* getCampaignFromBlockchain of the other copy of the module, whose ABI
\* names the fields amountRaised and isWithdrawn.
getCampaignFromBlockchainRenamed(ledger) ==
  [goal |-> JsString(ledger.goal),
   amountRaised |-> JsString(ledger.pledged),
   deadline |-> ledger.deadline * 1000,
   isWithdrawn |-> JsBoolean(ledger.withdrawn),
   pledged |-> JsUndefined,
   withdrawn |-> JsUndefined]

\* typeof v === 'string' ? parseFloat(v) : v
parseIfString(v) == IF v.type = "string" THEN JsNumber(parseFloatEther(v.value)) ELSE v

\* safeConvertToNumber: parseFloat(v) || 0 for a string, v || 0 otherwise.
safeConvertToNumber(v) ==
  IF v.type = "string" THEN JsNumber(parseFloatEther(v.value))
  ELSE IF v.type = "number" THEN v
  ELSE JsNumber(Wei(0, 0))

\* a >= b: false when either side is undefined (NaN).
jsGreaterEqual(a, b) ==
  a.type = "number" /\ b.type = "number" /\ ~weiLess(a.value, b.value)

\* !v
jsNot(v) == ~(v.type = "boolean" /\ v.value)

\* canWithdrawFunds of utils/blockchain.js.
canWithdrawFunds(campaign, now) ==
  LET amountRaised == parseIfString(campaign.pledged)
      goal == parseIfString(campaign.goal)
  IN [canWithdraw |-> jsGreaterEqual(amountRaised, goal) /\ jsNot(campaign.withdrawn),
      goalReached |-> jsGreaterEqual(amountRaised, goal),
      deadlinePassed |-> now >= campaign.deadline,
      isWithdrawn |-> campaign.withdrawn]

\* canWithdrawFunds of the other copy of the module.
canWithdrawFundsRenamed(campaign, now) ==
  LET amountRaised == safeConvertToNumber(campaign.amountRaised)
      goal == safeConvertToNumber(campaign.goal)
  IN [canWithdraw |-> jsGreaterEqual(amountRaised, goal) /\ jsNot(campaign.isWithdrawn),
      goalReached |-> jsGreaterEqual(amountRaised, goal),
      deadlinePassed |-> now >= campaign.deadline,
      isWithdrawn |-> campaign.isWithdrawn]

\* checkWithdrawalEligibility of utils/withdrawalHelper.js: withdrawalStatus.
checkWithdrawalEligibility(campaign, now) ==
  LET amountRaised == parseIfString(campaign.amountRaised)
      goal == parseIfString(campaign.goal)
  IN [canWithdraw |-> /\ jsGreaterEqual(amountRaised, goal)
                      /\ now >= campaign.deadline
                      /\ jsNot(campaign.isWithdrawn),
      goalReached |-> jsGreaterEqual(amountRaised, goal),
      deadlinePassed |-> now >= campaign.deadline,
      isWithdrawn |-> campaign.isWithdrawn]

\* No check has been asked for.
NoCheck(ledger, now) == [ledger |-> ledger, now |-> now, by |-> "none", report |-> NULL]

EligibilityInit == eligibility = NoCheck(NULL, 0)

\* ------------------------------------------------------------- Init
Init ==
  /\ current_amount = [c \in Campaigns |-> 0]
  /\ donations = [c \in Campaigns |-> [u \in Users |-> [rows |-> FALSE, total |-> 0]]]
  /\ usage_requests = <<>>
  /\ usage_votes = {}
  /\ response = Reply("none", 0, NONE, NONE)
  /\ handlers = [p \in Handlers |-> Idle]
  /\ ChainInit
  /\ SyncInit
  /\ EligibilityInit

\* ------------------------------------------------------------- actions
\* POST /api/donations: insert the donation row, then add to current_amount.
Donate(u, c, amount) ==
  /\ donations' = [donations EXCEPT ![c][u] =
                     [rows |-> TRUE, total |-> @.total + amount]]
  /\ current_amount' = [current_amount EXCEPT ![c] = @ + amount]
  /\ response' = Reply("donate", 200, NONE, NONE)
  /\ UNCHANGED <<usage_requests, usage_votes, handlers, chainVars, sync, eligibility>>

\* Variant: a request for exactly the remaining balance is refused as well.
exceedsRemainingAtBoundary(requestedAmount, summary) ==
  requestedAmount >= summary.remainingBalance

\* if (requestedAmount > summary.remainingBalance): the request is refused.
exceedsRemaining(requestedAmount, summary) ==
  requestedAmount > summary.remainingBalance

\* The row INSERTed by POST /api/usage-requests.
newUsageRequest(u, c, requestedAmount) ==
  [campaign_id |-> c, requested_amount |-> requestedAmount,
   actual_amount |-> NULL, status |-> "PENDING", created_by |-> u]

\* POST /api/usage-requests, run to completion on the tables it reads:
\* the rows it leaves and the response it sends.
createOutcome(amounts, reqs, u, c, requestedAmount) ==
  LET summary == calculateUsageFinancials(amounts, reqs, c)
  IN IF ~(requestedAmount > 0)
     THEN [rows |-> reqs, reply |-> Reply("create", 400, "validation", NONE)]
     ELSE IF creator_id(c) # u /\ ~isAdmin(u)
     THEN [rows |-> reqs, reply |-> Reply("create", 403, "authorization", NONE)]
     ELSE IF exceedsRemaining(requestedAmount, summary)
     THEN [rows |-> reqs,
           reply |-> Reply("create", 400, "exceeds_remaining", summary.remainingBalance)]
     ELSE [rows |-> Append(reqs, newUsageRequest(u, c, requestedAmount)),
           reply |-> Reply("create", 200, NONE, Len(reqs) + 1)]

CreateUsageRequest(u, c, requestedAmount) ==
  LET out == createOutcome(current_amount, usage_requests, u, c, requestedAmount)
  IN /\ usage_requests' = out.rows
     /\ response' = out.reply
     /\ UNCHANGED <<current_amount, donations, usage_votes, handlers, chainVars, sync, eligibility>>

\* POST /api/usage-requests/:id/vote, run to completion: the vote rows and
\* request rows it leaves and the response it sends.
voteOutcome(reqs, votes, don, u, requestId, voteValue) ==
  IF requestId \notin DOMAIN reqs
  THEN [rows |-> reqs, votes |-> votes, reply |-> Reply("vote", 404, "not_found", NONE)]
  ELSE LET request == reqs[requestId]
           donor == isCampaignDonor(don, u, request.campaign_id)
           donatedAmount == donatedBy(don, u, request.campaign_id)
           row == [usage_request_id |-> requestId, donor_id |-> u,
                   vote |-> IF voteValue THEN 1 ELSE 0,
                   donated_amount |-> donatedAmount]
           votes1 == upsertVote(votes, row)
       IN IF ~donor /\ ~isAdmin(u)
          THEN [rows |-> reqs, votes |-> votes,
                reply |-> Reply("vote", 403, "authorization", NONE)]
          ELSE [rows |-> maybeAutoApprove(reqs, votes1, don, requestId),
                votes |-> votes1,
                reply |-> Reply("vote", 200, NONE, NONE)]

Vote(u, requestId, voteValue) ==
  LET out == voteOutcome(usage_requests, usage_votes, donations, u, requestId, voteValue)
  IN /\ usage_requests' = out.rows
     /\ usage_votes' = out.votes
     /\ response' = out.reply
     /\ UNCHANGED <<current_amount, donations, handlers, chainVars, sync, eligibility>>

\* Variant: a PENDING request may be marked spent as well.
mayBeMarkedSpentAnyOpen(request) == request.status \in {"PENDING", "APPROVED"}

\* if (request.status !== 'APPROVED'): only approved requests can be marked spent.
mayBeMarkedSpent(request) == request.status = "APPROVED"

\* Variant: the comparison with the requested amount is left out.
exceedsRequestedNever(actualAmount, requestedAmount) == FALSE

\* if (actualAmount > requestedAmount): the actual amount cannot exceed the approved one.
exceedsRequested(actualAmount, requestedAmount) == actualAmount > requestedAmount

\* PATCH /api/usage-requests/:id/mark-spent, run to completion: the rows it
\* leaves and the response it sends.
markSpentOutcome(amounts, reqs, u, requestId, actualAmount) ==
  IF ~(actualAmount > 0)
  THEN [rows |-> reqs, reply |-> Reply("markSpent", 400, "validation", NONE)]
  ELSE IF requestId \notin DOMAIN reqs
  THEN [rows |-> reqs, reply |-> Reply("markSpent", 404, "not_found", NONE)]
  ELSE LET request == reqs[requestId]
           requestedAmount == request.requested_amount
           summary == calculateUsageFinancials(amounts, reqs, request.campaign_id)
           available == summary.remainingBalance
                          + Max(requestedAmount - normalizeNumber(request.actual_amount), 0)
       IN IF creator_id(request.campaign_id) # u /\ ~isAdmin(u)
          THEN [rows |-> reqs, reply |-> Reply("markSpent", 403, "authorization", NONE)]
          ELSE IF ~mayBeMarkedSpent(request)
          THEN [rows |-> reqs, reply |-> Reply("markSpent", 400, "not_approved", NONE)]
          ELSE IF exceedsRequested(actualAmount, requestedAmount)
          THEN [rows |-> reqs,
                reply |-> Reply("markSpent", 400, "exceeds_requested", requestedAmount)]
          ELSE IF actualAmount > available
          THEN [rows |-> reqs,
                reply |-> Reply("markSpent", 400, "exceeds_available", available)]
          ELSE [rows |-> [reqs EXCEPT ![requestId].status = "SPENT",
                                      ![requestId].actual_amount = <<actualAmount>>],
                reply |-> Reply("markSpent", 200, NONE, NONE)]

MarkSpent(u, requestId, actualAmount) ==
  LET out == markSpentOutcome(current_amount, usage_requests, u, requestId, actualAmount)
  IN /\ usage_requests' = out.rows
     /\ response' = out.reply
     /\ UNCHANGED <<current_amount, donations, usage_votes, handlers, chainVars, sync, eligibility>>

\* ------------------------------------------------------------- Spec
\* The donation keeps the raised amount and the recorded donations within cap.
WithinCap(c, amount, cap) ==
  /\ current_amount[c] + amount <= cap
  /\ getDonationSummary(donations, c).totalAmount + amount <= cap

\* The ledger workflow, the handlers running one after the other: one donor
\* gives, the owner proposes up to MaxRequests expenditures, the donor votes,
\* the owner marks approved ones spent.
Next ==
  \/ \E a \in DonationInputs : WithinCap(1, a, MaxRaised) /\ Donate("d1", 1, a)
  \/ \E a \in AmountInputs \ {0} :
       /\ Len(usage_requests) < MaxRequests
       /\ CreateUsageRequest("owner", 1, a)
  \/ \E r \in DOMAIN usage_requests, v \in BOOLEAN : Vote("d1", r, v)
  \/ \E r \in DOMAIN usage_requests, a \in AmountInputs \ {0} : MarkSpent("owner", r, a)

Spec == Init /\ [][Next]_vars

\* ------------------------------------------------------------- SpecVote
\* The voting workflow, the handlers running one after the other: three
\* donors give, the owner proposes an expenditure of one unit, everybody
\* (donors, the administrator, the owner who gave nothing) votes and votes
\* again, the owner marks the request spent.
NextVote ==
  \/ \E u \in {"d1", "d2", "d3"}, a \in DonationInputs :
       WithinCap(1, a, MaxVoteRaised) /\ Donate(u, 1, a)
  \/ /\ Len(usage_requests) < MaxVoteRequests
     /\ CreateUsageRequest("owner", 1, 1)
  \/ \E u \in Users, r \in DOMAIN usage_requests, v \in BOOLEAN : Vote(u, r, v)
  \/ \E r \in DOMAIN usage_requests : MarkSpent("owner", r, 1)

SpecVote == Init /\ [][NextVote]_vars

\* ------------------------------------------------------------- SpecConc
\* POST /api/usage-requests as the event loop runs it: the handler gives up
\* control at every await, and another request's handler may run in between.

\* Up to the first await of calculateUsageFinancials: validation, fetchCampaign
\* and the ownership check.
CreateStart(p, u, c, requestedAmount) ==
  /\ handlers[p].pc = "idle"
  /\ UNCHANGED <<current_amount, donations, usage_requests, usage_votes, chainVars, sync, eligibility>>
  /\ IF ~(requestedAmount > 0)
     THEN /\ response' = Reply("create", 400, "validation", NONE)
          /\ UNCHANGED handlers
     ELSE IF creator_id(c) # u /\ ~isAdmin(u)
     THEN /\ response' = Reply("create", 403, "authorization", NONE)
          /\ UNCHANGED handlers
     ELSE /\ handlers' = [handlers EXCEPT ![p] =
                            [pc |-> "fetchCampaign", user |-> u, campaign |-> c,
                             requestedAmount |-> requestedAmount, totalRaised |-> 0]]
          /\ UNCHANGED response

\* calculateUsageFinancials: await fetchCampaign(campaignId) reads current_amount.
CreateFetchCampaign(p) ==
  /\ handlers[p].pc = "fetchCampaign"
  /\ handlers' = [handlers EXCEPT ![p].pc = "usageRows",
                                  ![p].totalRaised = current_amount[handlers[p].campaign]]
  /\ UNCHANGED <<current_amount, donations, usage_requests, usage_votes, response, chainVars, sync, eligibility>>

\* calculateUsageFinancials: await dbAll(...) reads the usage rows; the summary
\* is computed and compared with the requested amount before the next await.
CreateCheckBalance(p) ==
  LET h == handlers[p]
      summary == finishSummary(h.totalRaised, usageTotals(usage_requests, h.campaign))
  IN /\ h.pc = "usageRows"
     /\ UNCHANGED <<current_amount, donations, usage_requests, usage_votes, chainVars, sync, eligibility>>
     /\ IF exceedsRemaining(h.requestedAmount, summary)
        THEN /\ response' = Reply("create", 400, "exceeds_remaining",
                                  summary.remainingBalance)
             /\ handlers' = [handlers EXCEPT ![p] = Idle]
        ELSE /\ handlers' = [handlers EXCEPT ![p].pc = "insert"]
             /\ UNCHANGED response

\* await dbRun(INSERT INTO usage_requests ...), then the response.
CreateInsert(p) ==
  LET h == handlers[p]
  IN /\ h.pc = "insert"
     /\ usage_requests' =
          Append(usage_requests, newUsageRequest(h.user, h.campaign, h.requestedAmount))
     /\ response' = Reply("create", 200, NONE, Len(usage_requests) + 1)
     /\ handlers' = [handlers EXCEPT ![p] = Idle]
     /\ UNCHANGED <<current_amount, donations, usage_votes, chainVars, sync, eligibility>>

\* Handlers that have passed, or may still pass, the balance check.
InFlight == {p \in Handlers : handlers[p].pc # "idle"}

NextConc ==
  \/ \E a \in DonationInputs : WithinCap(1, a, MaxRaised) /\ Donate("d1", 1, a)
  \/ \E p \in Handlers, a \in AmountInputs \ {0} :
       /\ Len(usage_requests) + Cardinality(InFlight) < MaxRequests
       /\ CreateStart(p, "owner", 1, a)
  \/ \E p \in Handlers : CreateFetchCampaign(p)
  \/ \E p \in Handlers : CreateCheckBalance(p)
  \/ \E p \in Handlers : CreateInsert(p)
  \/ \E r \in DOMAIN usage_requests : Vote("d1", r, TRUE)
  \/ \E r \in DOMAIN usage_requests, a \in AmountInputs \ {0} : MarkSpent("owner", r, a)

SpecConc == Init /\ [][NextConc]_vars

\* ------------------------------------------------------------- SpecMirror
\* What contract.methods.campaigns(id).call() gives one pass of the
\* reconciliation for one campaign: the call throws, the ledger has no such
\* campaign, or it reports the pledged amount.
LedgerAnswers ==
  {[kind |-> "throws", pledged |-> 0], [kind |-> "absent", pledged |-> 0]}
    \cup {[kind |-> "found", pledged |-> n] : n \in 0 .. MaxRaised}

\* The loop of syncCampaignStatuses over the ledger-linked campaigns: the
\* mirrored raised amount of every campaign found is overwritten.
syncPass(amounts, ledger) ==
  [c \in Campaigns |->
     IF ledger[c].kind = "found" THEN ledger[c].pledged ELSE amounts[c]]

SyncCampaignStatuses(ledger) ==
  /\ current_amount' = syncPass(current_amount, ledger)
  /\ response' = Reply("sync", 0, NONE, NONE)
  /\ UNCHANGED <<donations, usage_requests, usage_votes, handlers, chainVars, sync, eligibility>>

\* The ledger workflow of Spec with the reconciliation pass running in between.
NextMirror ==
  \/ \E a \in DonationInputs : WithinCap(1, a, MaxRaised) /\ Donate("d1", 1, a)
  \/ \E a \in AmountInputs \ {0} :
       /\ Len(usage_requests) < MaxMirrorRequests
       /\ CreateUsageRequest("owner", 1, a)
  \/ \E r \in DOMAIN usage_requests, v \in BOOLEAN : Vote("d1", r, v)
  \/ \E r \in DOMAIN usage_requests, a \in AmountInputs \ {0} : MarkSpent("owner", r, a)
  \/ \E ledger \in [Campaigns -> LedgerAnswers] : SyncCampaignStatuses(ledger)

SpecMirror == Init /\ [][NextMirror]_vars

\* ------------------------------------------------------------- SpecEval
\* maybeAutoApprove on its own: one usage request in any status the table
\* admits, donors and votes as a database may hold them, and the evaluator run
\* once or several times in a row, with votes cast in between or not.
EvalDonors == {"d1", "d2", "d3"}

InitEval ==
  /\ current_amount = [c \in Campaigns |-> MaxRaised]
  /\ \E given \in [EvalDonors -> 0 .. 2] :
       donations = [c \in Campaigns |-> [u \in Users |->
                      IF u \in EvalDonors /\ given[u] > 0
                      THEN [rows |-> TRUE, total |-> given[u]]
                      ELSE [rows |-> FALSE, total |-> 0]]]
  /\ \E st \in STATUS_OPTIONS :
       usage_requests =
         << [campaign_id |-> 1, requested_amount |-> 1,
             actual_amount |-> IF st = "SPENT" THEN <<1>> ELSE NULL,
             status |-> st, created_by |-> "owner"] >>
  /\ \E cast \in [EvalDonors -> {"none", "approve", "reject"}] :
       usage_votes =
         {[usage_request_id |-> 1, donor_id |-> u,
           vote |-> IF cast[u] = "approve" THEN 1 ELSE 0,
           donated_amount |-> donations[1][u].total] :
            u \in {d \in EvalDonors : cast[d] # "none" /\ donations[1][d].total > 0}}
  /\ response = Reply("none", 0, NONE, NONE)
  /\ handlers = [p \in Handlers |-> Idle]
  /\ ChainInit
  /\ SyncInit
  /\ EligibilityInit

\* One run of maybeAutoApprove(requestId); the response variable records the
\* run and whether the previous event was a run on the same request.
Evaluate(requestId) ==
  /\ usage_requests' = maybeAutoApprove(usage_requests, usage_votes, donations, requestId)
  /\ response' = Reply("evaluate",
                       IF response.op = "evaluate" /\ response.info = requestId
                       THEN 2 ELSE 1,
                       NONE, requestId)
  /\ UNCHANGED <<current_amount, donations, usage_votes, handlers, chainVars, sync, eligibility>>

NextEval ==
  \/ \E r \in DOMAIN usage_requests : Evaluate(r)
  \/ \E u \in EvalDonors \cup {"admin"}, r \in DOMAIN usage_requests, v \in BOOLEAN :
       Vote(u, r, v)

SpecEval == InitEval /\ [][NextEval]_vars

\* ------------------------------------------------------------- SpecFault
\* The vote handler when the database may fail one of its statements: the
\* promise of that statement rejects, the handler's catch answers
\* error.status || 500, and every statement run before it stays committed
\* (each dbRun is its own implicit transaction).

\* The statement of the vote handler that fails, after the checks: none, the
\* vote upsert, a read of maybeAutoApprove, its UPDATE of the status, or a
\* read of buildRequestResponse.
VoteFaults == {"none", "upsert", "evaluate", "update", "respond"}

\* POST /api/usage-requests/:id/vote with the failure drawn.
voteFaultOutcome(reqs, votes, don, u, requestId, voteValue, fault) ==
  LET out == voteOutcome(reqs, votes, don, u, requestId, voteValue)
      failed == Reply("vote", 500, "server_error", fault)
  IN IF out.reply.code # 200 \/ fault = "none" THEN out
     ELSE IF fault = "upsert" THEN [rows |-> reqs, votes |-> votes, reply |-> failed]
     ELSE IF fault = "evaluate" THEN [rows |-> reqs, votes |-> out.votes, reply |-> failed]
     ELSE IF fault = "update"
     THEN IF out.rows # reqs
          THEN [rows |-> reqs, votes |-> out.votes, reply |-> failed]
          ELSE out
     ELSE [rows |-> out.rows, votes |-> out.votes, reply |-> failed]

VoteWithFault(u, requestId, voteValue, fault) ==
  LET out == voteFaultOutcome(usage_requests, usage_votes, donations, u, requestId,
                              voteValue, fault)
  IN /\ usage_requests' = out.rows
     /\ usage_votes' = out.votes
     /\ response' = out.reply
     /\ UNCHANGED <<current_amount, donations, handlers, chainVars, sync, eligibility>>

NextFault ==
  \/ \E a \in DonationInputs : WithinCap(1, a, MaxRaised) /\ Donate("d1", 1, a)
  \/ \E a \in AmountInputs \ {0} :
       /\ Len(usage_requests) < MaxRequests
       /\ CreateUsageRequest("owner", 1, a)
  \/ \E r \in DOMAIN usage_requests, v \in BOOLEAN, fault \in VoteFaults :
       VoteWithFault("d1", r, v, fault)
  \/ \E r \in DOMAIN usage_requests, a \in AmountInputs \ {0} : MarkSpent("owner", r, a)

SpecFault == Init /\ [][NextFault]_vars

\* ------------------------------------------------------------- SpecLedger
\* The Ledger Accountant on any table of usage rows: the tables are drawn at
\* the start and GET /api/usage-requests/:campaignId reports the summary.
MaxLedgerRows == 2
LedgerRaisedInputs == {0, 50, 100}
LedgerRequestedInputs == {30, 40}
LedgerActualInputs == {NULL, <<25>>, <<40>>}

LedgerRows ==
  [campaign_id : Campaigns, requested_amount : LedgerRequestedInputs,
   actual_amount : LedgerActualInputs, status : STATUS_OPTIONS, created_by : {"owner"}]

InitLedger ==
  /\ current_amount \in [Campaigns -> LedgerRaisedInputs]
  /\ donations = [c \in Campaigns |-> [u \in Users |-> [rows |-> FALSE, total |-> 0]]]
  /\ usage_requests \in UNION {[1 .. n -> LedgerRows] : n \in 0 .. MaxLedgerRows}
  /\ usage_votes = {}
  /\ response = Reply("none", 0, NONE, NONE)
  /\ handlers = [p \in Handlers |-> Idle]
  /\ ChainInit
  /\ SyncInit
  /\ EligibilityInit

\* GET /api/usage-requests/:campaignId: the body carries the summary.
ListUsageRequests(c) ==
  /\ response' = Reply("list", 200, NONE, calculateUsageFinancials(current_amount, usage_requests, c))
  /\ UNCHANGED <<current_amount, donations, usage_requests, usage_votes, handlers, chainVars, sync, eligibility>>

NextLedger == \E c \in Campaigns : ListUsageRequests(c)

SpecLedger == InitLedger /\ [][NextLedger]_vars

\* ------------------------------------------------------------- SpecChain
\* The contract under every transaction its callers may send, within the caps.
NextChain ==
  \/ \E sender \in Wallets, goal \in GoalInputs, deadline \in DeadlineInputs :
       /\ Len(chain.campaigns) < MaxCampaigns
       /\ CreateCampaign(sender, goal, deadline)
  \/ \E sender \in Wallets, id \in CampaignIds, value \in ValueInputs :
       /\ campaignExists(chain, id) => chain.campaigns[id].pledged + value <= MaxPledged
       /\ DonateToCampaign(sender, id, value)
  \/ \E sender \in Wallets, id \in CampaignIds, sent \in BOOLEAN : Withdraw(sender, id, sent)
  \/ \E sender \in Wallets, id \in CampaignIds, amount \in WeiInputs,
        percentage \in PercentageInputs :
       /\ Len(chain.withdrawalRequests[id]) < MaxWithdrawalRequests
       /\ RequestWithdrawal(sender, id, amount, percentage)
  \/ \E sender \in Wallets, id \in CampaignIds, requestId \in WithdrawalRequestIds :
       ApproveWithdrawal(sender, id, requestId)
  \/ \E sender \in Wallets, id \in CampaignIds, requestId \in WithdrawalRequestIds :
       RejectWithdrawal(sender, id, requestId)
  \/ \E sender \in Wallets, id \in CampaignIds, requestId \in WithdrawalRequestIds,
        sent \in BOOLEAN :
       ExecuteWithdrawal(sender, id, requestId, sent)
  \/ \E sender \in Wallets, id \in CampaignIds, sent \in BOOLEAN : Refund(sender, id, sent)
  \/ ReceiveForcedEther
  \/ Mine

SpecChain == Init /\ [][NextChain]_vars

\* ------------------------------------------------------------- shorthands
Summary(c) == calculateUsageFinancials(current_amount, usage_requests, c)

StatusOf(r) == usage_requests[r].status

\* What the three handlers would do in the current state.
CreateNow(u, c, a) == createOutcome(current_amount, usage_requests, u, c, a)

VoteNow(u, r, v) == voteOutcome(usage_requests, usage_votes, donations, u, r, v)

MarkSpentNow(u, r, a) == markSpentOutcome(current_amount, usage_requests, u, r, a)

\* ------------------------------------------------------------- C1
\* C1: for every campaign, after any sequence of create, vote and mark-spent
\* operations, the quantities recomputed by calculateUsageFinancials satisfy
\* totalSpent + outstandingApproved + totalPending + remainingBalance = totalRaised.
C1_Conservation ==
  \A c \in Campaigns :
    Summary(c).totalSpent + Summary(c).outstandingApproved
      + Summary(c).totalPending + Summary(c).remainingBalance
    = Summary(c).totalRaised

\* ------------------------------------------------------------- C4
\* A mark-spent on a request whose status is not APPROVED is answered with an
\* error and leaves the rows as they are: for the status the row has, and for
\* the row put into each of the other statuses (no handler writes REJECTED).
C4_RefusedUnlessApproved ==
  \A u \in Users, r \in DOMAIN usage_requests, a \in AmountInputs :
    /\ StatusOf(r) # "APPROVED"
         => LET out == MarkSpentNow(u, r, a)
            IN out.reply.code >= 400 /\ out.rows = usage_requests
    /\ \A st \in STATUS_OPTIONS \ {"APPROVED"} :
         LET reqs == [usage_requests EXCEPT ![r].status = st]
             out == markSpentOutcome(current_amount, reqs, u, r, a)
         IN out.reply.code >= 400 /\ out.rows = reqs

C4_BecomesSpentStep ==
  \A r \in DOMAIN usage_requests' :
    (usage_requests'[r].status = "SPENT"
       /\ (r \notin DOMAIN usage_requests \/ usage_requests[r].status # "SPENT"))
    => /\ r \in DOMAIN usage_requests
       /\ usage_requests[r].status = "APPROVED"
       /\ response' = Reply("markSpent", 200, NONE, NONE)

\* C4: a request becomes SPENT only by a successful mark-spent on a request
\* that is APPROVED; a mark-spent on a request in any other status (PENDING,
\* REJECTED, SPENT) is answered with an error and leaves the row unchanged.
C4_SpentOnlyFromApproved ==
  []C4_RefusedUnlessApproved /\ [][C4_BecomesSpentStep]_vars

\* A mark-spent was refused for the status while one request is SPENT and
\* none is APPROVED: the refused one was PENDING or already SPENT.
C4_Witness ==
  /\ response = Reply("markSpent", 400, "not_approved", NONE)
  /\ \E r \in DOMAIN usage_requests : StatusOf(r) = "SPENT"
  /\ \A r \in DOMAIN usage_requests : StatusOf(r) # "APPROVED"

\* ------------------------------------------------------------- C5
\* C5: every SPENT request has actual_amount <= requested_amount, and a
\* mark-spent with actualAmount > requestedAmount on an APPROVED request is
\* refused: the request stays APPROVED with no actual amount recorded.
C5_ActualWithinRequested ==
  /\ \A r \in DOMAIN usage_requests :
       StatusOf(r) = "SPENT"
       => /\ usage_requests[r].actual_amount # NULL
          /\ usage_requests[r].actual_amount[1] <= usage_requests[r].requested_amount
  /\ \A u \in Users, r \in DOMAIN usage_requests, a \in AmountInputs :
       (StatusOf(r) = "APPROVED" /\ a > usage_requests[r].requested_amount)
       => LET out == MarkSpentNow(u, r, a)
          IN /\ out.reply.code >= 400
             /\ out.rows[r].status = "APPROVED"
             /\ out.rows[r].actual_amount = NULL

\* An over-spend was refused on a request that is still APPROVED, next to a
\* request spent below its requested amount.
C5_Witness ==
  /\ response.op = "markSpent" /\ response.error = "exceeds_requested"
  /\ \E r \in DOMAIN usage_requests :
       StatusOf(r) = "APPROVED" /\ usage_requests[r].actual_amount = NULL
  /\ \E r \in DOMAIN usage_requests :
       /\ StatusOf(r) = "SPENT"
       /\ usage_requests[r].actual_amount[1] < usage_requests[r].requested_amount

\* ------------------------------------------------------------- C6
\* C6: a create by the owner or an administrator with
\* 0 < requestedAmount <= remainingBalance succeeds and appends one PENDING
\* row; with requestedAmount > remainingBalance it fails with a validation
\* error carrying the current remainingBalance and no row is written.
C6_CreateBoundary ==
  \A u \in Users, c \in Campaigns, a \in AmountInputs :
    LET out == CreateNow(u, c, a)
        remainingBalance == Summary(c).remainingBalance
    IN (creator_id(c) = u \/ isAdmin(u))
       => /\ (0 < a /\ a <= remainingBalance)
               => /\ out.reply.code = 200
                  /\ out.rows =
                       Append(usage_requests,
                              [campaign_id |-> c, requested_amount |-> a,
                               actual_amount |-> NULL, status |-> "PENDING",
                               created_by |-> u])
          /\ (a > remainingBalance)
               => /\ out.reply.code = 400
                  /\ out.reply.error = "exceeds_remaining"
                  /\ out.reply.info = remainingBalance
                  /\ out.rows = usage_requests

\* A request for exactly the remaining balance was accepted (nothing is left),
\* after an earlier request had already taken part of the raised amount.
C6_Witness ==
  /\ response.op = "create" /\ response.code = 200
  /\ Len(usage_requests) = 2
  /\ usage_requests[2].status = "PENDING"
  /\ usage_requests[2].requested_amount < Summary(1).totalRaised
  /\ Summary(1).remainingBalance = 0

\* ------------------------------------------------------------- C3
\* The two approval rates of request r over the vote rows `votes`, each
\* compared with one half (a rate with a zero denominator counts as zero).
C3_DonorRateAboveHalf(votes, r) ==
  LET total == Cardinality({u \in Users : donations[usage_requests[r].campaign_id][u].rows})
      approving == Cardinality({v \in votes : v.usage_request_id = r /\ v.vote = 1})
  IN total > 0 /\ 2 * approving > total

C3_DonationRateAboveHalf(votes, r) ==
  LET total == SumSet(Users, [u \in Users |->
                                 donations[usage_requests[r].campaign_id][u].total])
      rows == {v \in votes : v.usage_request_id = r /\ v.vote = 1}
      approving == SumSet(rows, [v \in rows |-> v.donated_amount])
  IN total > 0 /\ 2 * approving > total

\* Every accepted vote on a PENDING request leaves it APPROVED exactly when
\* one of the two rates, taken over the votes as stored after the upsert, is
\* above one half; otherwise it stays PENDING.
C3_Evaluation ==
  \A u \in Users, r \in DOMAIN usage_requests, v \in BOOLEAN :
    LET out == VoteNow(u, r, v)
    IN (out.reply.code = 200 /\ StatusOf(r) = "PENDING")
       => /\ out.rows[r].status \in {"PENDING", "APPROVED"}
          /\ out.rows[r].status = "APPROVED"
               <=> \/ C3_DonorRateAboveHalf(out.votes, r)
                   \/ C3_DonationRateAboveHalf(out.votes, r)

\* A request leaves PENDING for APPROVED only in an accepted vote.
C3_ApprovalStep ==
  \A r \in DOMAIN usage_requests :
    (usage_requests[r].status = "PENDING" /\ usage_requests'[r].status = "APPROVED")
    => /\ response' = Reply("vote", 200, NONE, NONE)
       /\ usage_votes' # usage_votes

C9_VoteUpsert ==
  /\ \A v1, v2 \in usage_votes :
       (v1.usage_request_id = v2.usage_request_id /\ v1.donor_id = v2.donor_id)
       => v1 = v2
  /\ \A u \in Users, r \in DOMAIN usage_requests, v \in BOOLEAN :
       LET out == VoteNow(u, r, v)
       IN out.reply.code = 200
          => /\ {w \in out.votes : w.usage_request_id = r /\ w.donor_id = u}
                  = {[usage_request_id |-> r, donor_id |-> u,
                      vote |-> IF v THEN 1 ELSE 0,
                      donated_amount |-> donations[usage_requests[r].campaign_id][u].total]}
             /\ {w \in out.votes : ~(w.usage_request_id = r /\ w.donor_id = u)}
                  = {w \in usage_votes : ~(w.usage_request_id = r /\ w.donor_id = u)}

\* A donor who had approved (the request is APPROVED) has voted again: the
\* stored row is the rejection, with a weight raised by a later donation.
C9_Witness ==
  /\ response = Reply("vote", 200, NONE, NONE)
  /\ \E r \in DOMAIN usage_requests, w \in usage_votes :
       /\ StatusOf(r) = "APPROVED"
       /\ \A x \in usage_votes : x.usage_request_id = r => x = w
       /\ w.vote = 0
       /\ w.donated_amount = donations[1][w.donor_id].total
       /\ w.donated_amount > 1

\* ------------------------------------------------------------- C10
\* C10: a vote by a caller who gave nothing to the request's campaign and is
\* no administrator is refused with an authorization error; the vote rows
\* and the request rows stay as they are.
C10_NonDonorRefused ==
  \A u \in Users, r \in DOMAIN usage_requests, v \in BOOLEAN :
    (donations[usage_requests[r].campaign_id][u].total = 0 /\ u # "admin")
    => LET out == VoteNow(u, r, v)
       IN /\ out.reply = Reply("vote", 403, "authorization", NONE)
          /\ out.votes = usage_votes
          /\ out.rows = usage_requests

\* A vote was refused while the request is PENDING with votes on record; the
\* only callers who may not vote are the owner, who gave nothing, and a user
\* whose recorded donations add up to 0.
C10_Witness ==
  /\ response = Reply("vote", 403, "authorization", NONE)
  /\ \E r \in DOMAIN usage_requests : StatusOf(r) = "PENDING"
  /\ usage_votes # {}
  /\ \E u \in Users : donations[1][u].rows /\ donations[1][u].total = 0
  /\ \A u \in Users \ {"owner", "admin"} : donations[1][u].rows

\* ------------------------------------------------------------- C2
\* Requested amounts of the PENDING, APPROVED and SPENT requests of campaign c.
C2_Committed(c) ==
  LET rows == {i \in DOMAIN usage_requests :
                 /\ usage_requests[i].campaign_id = c
                 /\ usage_requests[i].status \in {"PENDING", "APPROVED", "SPENT"}}
  IN SumSet(rows, [i \in rows |-> usage_requests[i].requested_amount])

\* C2: under any interleaving of concurrent create-usage-request operations
\* on one campaign, the requested amounts of its PENDING, APPROVED and SPENT
\* requests never add up to more than the campaign's raised amount.
C2_NoOvercommit ==
  \A c \in Campaigns : C2_Committed(c) <= current_amount[c]

\* ------------------------------------------------------------- C7
\* C7: remainingBalance >= 0 in every reachable state, also after donations,
\* creations, votes, mark-spent and a reconciliation pass that lowers the
\* mirrored raised amount.
C7_NonNegative ==
  \A c \in Campaigns : Summary(c).remainingBalance >= 0

\* A reconciliation pass has lowered the raised amount below what is committed.
C7_Witness ==
  /\ response.op = "sync"
  /\ Summary(1).totalRaised
       < Summary(1).totalSpent + Summary(1).outstandingApproved + Summary(1).totalPending
  /\ Summary(1).totalSpent > 0
  /\ Summary(1).remainingBalance = 0

\* ------------------------------------------------------------- C8
\* The evaluator leaves a request that is not PENDING as it is, and applied to
\* its own result it changes nothing.
C8_NoOpOnResult ==
  \A r \in DOMAIN usage_requests :
    LET once == maybeAutoApprove(usage_requests, usage_votes, donations, r)
    IN /\ StatusOf(r) # "PENDING" => once = usage_requests
       /\ maybeAutoApprove(once, usage_votes, donations, r) = once

\* A run of the evaluator that follows a run on the same request, with no
\* vote in between, changes no row.
C8_RerunStep ==
  (response'.op = "evaluate" /\ response'.code = 2) => usage_requests' = usage_requests

\* C8: running the auto-approval evaluator again on a request, with no vote
\* cast in between, never changes the request's status, whatever that status
\* is (PENDING, APPROVED, REJECTED or SPENT).
C8_Idempotent == []C8_NoOpOnResult /\ [][C8_RerunStep]_vars

\* The evaluator ran twice in a row on a SPENT request that most donors approve.
C8_Witness ==
  /\ response = Reply("evaluate", 2, NONE, 1)
  /\ StatusOf(1) = "SPENT"
  /\ C3_DonorRateAboveHalf(usage_votes, 1)

\* ------------------------------------------------------------- SpecSync
\* The reconciliation as the event loop runs it: the interval timer, the
\* startup timeout and the manual trigger call syncCampaignStatuses, which
\* gives up control at each await; the database and the ledger answer, fail,
\* or (the ledger) never answer.
SyncStep(s) ==
  /\ sync' = s
  /\ UNCHANGED <<current_amount, donations, usage_requests, usage_votes, response,
                 handlers, chainVars, eligibility>>

\* setInterval(syncCampaignStatuses, SYNC_INTERVAL) fires.
TimerTick ==
  /\ sync.clock = sync.nextTick
  /\ SyncStep(invokeSync([sync EXCEPT !.nextTick = @ + SYNC_INTERVAL]))

\* setTimeout(syncCampaignStatuses, 5000) fires.
StartupTimeout ==
  /\ sync.startupPending
  /\ sync.clock = STARTUP_DELAY
  /\ SyncStep(invokeSync([sync EXCEPT !.startupPending = FALSE]))

\* The exported function is called by hand.
ManualSync ==
  /\ sync.manualCalls < MaxManual
  /\ SyncStep(invokeSync([sync EXCEPT !.manualCalls = @ + 1]))

SelectReturns(k, ok) ==
  /\ k \in DOMAIN sync.passes
  /\ sync.passes[k].pc = "select"
  /\ SyncStep(selectReturns(sync, k, ok))

LookupReturns(k, answer) ==
  /\ k \in DOMAIN sync.passes
  /\ sync.passes[k].pc = "lookup"
  /\ SyncStep(lookupReturns(sync, k, answer))

\* The provider drops the request: the promise of the lookup never settles.
LookupHangs(k) ==
  /\ k \in DOMAIN sync.passes
  /\ sync.passes[k].pc = "lookup"
  /\ SyncStep([sync EXCEPT !.passes[k].pc = "hung"])

UpdateReturns(k, ok) ==
  /\ k \in DOMAIN sync.passes
  /\ sync.passes[k].pc = "update"
  /\ SyncStep(updateReturns(sync, k, ok))

\* Time passes, up to the next instant a timer is due.
Elapse(t) ==
  /\ t > sync.clock
  /\ sync.nextTick <= MaxTicks * SYNC_INTERVAL => t <= sync.nextTick
  /\ sync.startupPending => t <= STARTUP_DELAY
  /\ SyncStep([sync EXCEPT !.clock = t])

\* The steps a pass in flight takes by itself once what it awaits settles.
PassSteps ==
  \/ \E k \in 1 .. 2, ok \in BOOLEAN : SelectReturns(k, ok)
  \/ \E k \in 1 .. 2, answer \in SyncLedgerAnswers : LookupReturns(k, answer)
  \/ \E k \in 1 .. 2, ok \in BOOLEAN : UpdateReturns(k, ok)

NextSync ==
  \/ TimerTick
  \/ StartupTimeout
  \/ ManualSync
  \/ PassSteps
  \/ \E k \in 1 .. 2 : LookupHangs(k)
  \/ \E t \in Instants : Elapse(t)

SpecSync == Init /\ [][NextSync]_vars

\* The event loop runs the continuation of a pass whenever what it awaits
\* has settled; nothing makes a dropped request settle.
SpecSyncLive == Init /\ [][NextSync]_vars /\ WF_vars(PassSteps)

\* ------------------------------------------------------------- SpecEligibility
\* The eligibility checks applied to every campaign state of the ledger.
InitEligibility ==
  /\ current_amount = [c \in Campaigns |-> 0]
  /\ donations = [c \in Campaigns |-> [u \in Users |-> [rows |-> FALSE, total |-> 0]]]
  /\ usage_requests = <<>>
  /\ usage_votes = {}
  /\ response = Reply("none", 0, NONE, NONE)
  /\ handlers = [p \in Handlers |-> Idle]
  /\ ChainInit
  /\ SyncInit
  /\ \E ledger \in EligibilityLedgers, now \in EligibilityInstants :
       eligibility = NoCheck(ledger, now)

Answer(by, report) ==
  /\ eligibility.by = "none"
  /\ eligibility' = [eligibility EXCEPT !.by = by, !.report = report]
  /\ UNCHANGED <<current_amount, donations, usage_requests, usage_votes, response,
                 handlers, chainVars, sync>>

\* GET api/withdrawal/check/:campaignId of routes/api/withdrawal.js.
CheckWithdrawal ==
  Answer("canWithdrawFunds",
         canWithdrawFunds(getCampaignFromBlockchain(eligibility.ledger),
                          eligibility.now * 1000))

\* The same route in the version built on the helper.
CheckWithdrawalWithHelper ==
  Answer("checkWithdrawalEligibility",
         checkWithdrawalEligibility(getCampaignFromBlockchain(eligibility.ledger),
                                    eligibility.now * 1000))

\* The check of the other copy of the blockchain module.
CheckWithdrawalRenamed ==
  Answer("canWithdrawFundsRenamed",
         canWithdrawFundsRenamed(getCampaignFromBlockchainRenamed(eligibility.ledger),
                                 eligibility.now * 1000))

NextEligibility ==
  \/ CheckWithdrawal
  \/ CheckWithdrawalWithHelper
  \/ CheckWithdrawalRenamed

SpecEligibility == InitEligibility /\ [][NextEligibility]_vars

\* What contract.methods.campaigns(id).call() returns for a campaign of the
\* contract model, whose amounts are a few wei.
ledgerOf(c, id) ==
  [goal |-> Wei(0, c.campaigns[id].goal),
   pledged |-> Wei(0, c.campaigns[id].pledged),
   deadline |-> c.campaigns[id].deadline,
   withdrawn |-> c.campaigns[id].withdrawn]

\* ------------------------------------------------------------- SpecRace
\* POST /api/usage-requests/:id/vote and PATCH .../mark-spent as the event
\* loop runs them on one usage request: each handler gives up control at its
\* awaits and another handler may run in between. The donations are in place
\* before the votes; the reads that come before a handler's first write see
\* tables no handler changes and are taken together with it.
RaceDonors == {"d1", "d2", "d3"}
RaceVoters == {"d1", "d2", "admin"}

\* A vote or mark-spent handler between two of its awaits.
RaceFrame(pc, u, requestId, row) == [pc |-> pc, user |-> u, request |-> requestId, row |-> row]

InitRace ==
  /\ current_amount = [c \in Campaigns |-> MaxRaised]
  /\ donations = [c \in Campaigns |-> [u \in Users |->
                    IF u \in RaceDonors
                    THEN [rows |-> TRUE, total |-> 1]
                    ELSE [rows |-> FALSE, total |-> 0]]]
  /\ usage_requests = <<newUsageRequest("owner", 1, 1)>>
  /\ usage_votes = {}
  /\ response = Reply("create", 200, NONE, 1)
  /\ handlers = [p \in Handlers |-> Idle]
  /\ ChainInit
  /\ SyncInit
  /\ EligibilityInit

RaceStep(p, frame, reqs, votes, reply) ==
  /\ handlers' = [handlers EXCEPT ![p] = frame]
  /\ usage_requests' = reqs
  /\ usage_votes' = votes
  /\ response' = reply
  /\ UNCHANGED <<current_amount, donations, chainVars, sync, eligibility>>

\* The vote handler up to await dbRun(INSERT INTO usage_votes ... ON CONFLICT).
VoteUpsert(p, u, requestId, voteValue) ==
  LET request == usage_requests[requestId]
      row == [usage_request_id |-> requestId, donor_id |-> u,
              vote |-> IF voteValue THEN 1 ELSE 0,
              donated_amount |-> donatedBy(donations, u, request.campaign_id)]
  IN /\ handlers[p].pc = "idle"
     /\ IF ~isCampaignDonor(donations, u, request.campaign_id) /\ ~isAdmin(u)
        THEN RaceStep(p, Idle, usage_requests, usage_votes,
                      Reply("vote", 403, "authorization", NONE))
        ELSE RaceStep(p, RaceFrame("evalFetch", u, requestId, NULL), usage_requests,
                      upsertVote(usage_votes, row), response)

\* maybeAutoApprove: const request = await fetchUsageRequest(requestId);
\* if (request.status !== 'PENDING') return request.
EvalFetch(p) ==
  LET h == handlers[p]
  IN /\ h.pc = "evalFetch"
     /\ IF usage_requests[h.request].status # "PENDING"
        THEN RaceStep(p, Idle, usage_requests, usage_votes, Reply("vote", 200, NONE, NONE))
        ELSE RaceStep(p, [h EXCEPT !.pc = "evalStats"], usage_requests, usage_votes, response)

\* maybeAutoApprove: the donation summary and the SELECT over usage_votes,
\* then the two rates.
EvalStats(p) ==
  LET h == handlers[p]
      s == getDonationSummary(donations, usage_requests[h.request].campaign_id)
  IN /\ h.pc = "evalStats"
     /\ IF /\ s.totalDonors # 0
           /\ \/ rateAboveHalf(approvalsOf(usage_votes, h.request), s.totalDonors)
              \/ rateAboveHalf(approvedWeightedOf(usage_votes, h.request), s.totalAmount)
        THEN RaceStep(p, [h EXCEPT !.pc = "evalWrite"], usage_requests, usage_votes, response)
        ELSE RaceStep(p, Idle, usage_requests, usage_votes, Reply("vote", 200, NONE, NONE))

\* maybeAutoApprove: UPDATE usage_requests SET status = 'APPROVED' WHERE id = ?
EvalWrite(p) ==
  LET h == handlers[p]
  IN /\ h.pc = "evalWrite"
     /\ RaceStep(p, Idle, [usage_requests EXCEPT ![h.request].status = "APPROVED"],
                 usage_votes, Reply("vote", 200, NONE, NONE))

\* mark-spent: const request = await fetchUsageRequest(requestId), the
\* ownership and status checks and the comparison with the requested amount.
MarkSpentFetch(p, u, requestId, actualAmount) ==
  LET request == usage_requests[requestId]
  IN /\ handlers[p].pc = "idle"
     /\ IF creator_id(request.campaign_id) # u /\ ~isAdmin(u)
        THEN RaceStep(p, Idle, usage_requests, usage_votes,
                      Reply("markSpent", 403, "authorization", NONE))
        ELSE IF ~mayBeMarkedSpent(request)
        THEN RaceStep(p, Idle, usage_requests, usage_votes,
                      Reply("markSpent", 400, "not_approved", NONE))
        ELSE IF exceedsRequested(actualAmount, request.requested_amount)
        THEN RaceStep(p, Idle, usage_requests, usage_votes,
                      Reply("markSpent", 400, "exceeds_requested", request.requested_amount))
        ELSE RaceStep(p, RaceFrame("spentWrite", u, requestId,
                                   [request |-> request, actualAmount |-> actualAmount]),
                      usage_requests, usage_votes, response)

\* mark-spent: calculateUsageFinancials, the comparison with the available
\* funds, and UPDATE usage_requests SET status = 'SPENT', actual_amount = ?
MarkSpentWrite(p) ==
  LET h == handlers[p]
      request == h.row.request
      summary == calculateUsageFinancials(current_amount, usage_requests, request.campaign_id)
      available == summary.remainingBalance
                     + Max(request.requested_amount - normalizeNumber(request.actual_amount), 0)
  IN /\ h.pc = "spentWrite"
     /\ IF h.row.actualAmount > available
        THEN RaceStep(p, Idle, usage_requests, usage_votes,
                      Reply("markSpent", 400, "exceeds_available", available))
        ELSE RaceStep(p, Idle,
                      [usage_requests EXCEPT ![h.request].status = "SPENT",
                                             ![h.request].actual_amount = <<h.row.actualAmount>>],
                      usage_votes, Reply("markSpent", 200, NONE, NONE))

NextRace ==
  \/ \E p \in Handlers, u \in RaceVoters, v \in BOOLEAN : VoteUpsert(p, u, 1, v)
  \/ \E p \in Handlers : EvalFetch(p)
  \/ \E p \in Handlers : EvalStats(p)
  \/ \E p \in Handlers : EvalWrite(p)
  \/ \E p \in Handlers : MarkSpentFetch(p, "owner", 1, 1)
  \/ \E p \in Handlers : MarkSpentWrite(p)

SpecRace == InitRace /\ [][NextRace]_vars

\* ------------------------------------------------------------- SpecStale
\* The ledger and its mirror side by side: donors donate and take refunds on
\* the contract, POST /api/donations records what clients report, a pass of
\* the reconciliation copies the pledged total into the mirror, and the owner
\* creates usage requests against the mirror.

\* campaigns(id).pledged as the contract holds it for the mirrored campaign.
authoritativePledged(c, id) == IF campaignExists(c, id) THEN c.campaigns[id].pledged ELSE 0

\* What the lookups of a pass answer, read from the contract.
ledgerAnswersOf(c) ==
  [id \in Campaigns |->
     IF campaignExists(c, id)
     THEN [kind |-> "found", pledged |-> c.campaigns[id].pledged]
     ELSE [kind |-> "absent", pledged |-> 0]]

StaleWallets == {"creator", "donorA"}

NextStale ==
  \/ \E deadline \in DeadlineInputs :
       /\ Len(chain.campaigns) < MaxCampaigns
       /\ CreateCampaign("creator", MaxPledged, deadline)
  \/ \E sender \in StaleWallets, id \in CampaignIds, value \in {1, 2} :
       /\ campaignExists(chain, id) => chain.campaigns[id].pledged + value <= MaxPledged
       /\ DonateToCampaign(sender, id, value)
  \/ \E sender \in StaleWallets, id \in CampaignIds : Refund(sender, id, TRUE)
  \/ Mine
  \/ \E a \in DonationInputs : WithinCap(1, a, MaxRaised) /\ Donate("d1", 1, a)
  \/ SyncCampaignStatuses(ledgerAnswersOf(chain))
  \/ \E a \in AmountInputs \ {0} :
       /\ Len(usage_requests) < MaxMirrorRequests
       /\ CreateUsageRequest("owner", 1, a)

SpecStale == Init /\ [][NextStale]_vars

\* ------------------------------------------------------------- SpecReenter
\* The value transfers as the EVM runs them: withdraw, executeWithdrawal and
\* refund write their storage, then hand control to the recipient with the
\* ether; the recipient's code may call back into the contract before it
\* returns. ReentrancyGuard's _status is _ENTERED exactly while such a frame
\* is on the call stack.

\* A nonReentrant function stopped at its value transfer: the function, the
\* contract before the transaction, the contract as the recipient is handed
\* control, the recipient, and the nested calls that went through so far.
Frame(fn, before, mid, recipient) ==
  [fn |-> fn, before |-> before, mid |-> mid, recipient |-> recipient, completed |-> 0]

\* modifier nonReentrant: require(_status != _ENTERED, ...) around the body.
nonReentrant(stack, c, fn, out) ==
  IF Len(stack) > 0 THEN Revert(c, fn, "ReentrancyGuard: reentrant call") ELSE out

\* A nonReentrant function runs up to its value transfer; out is what it
\* leaves when the transfer succeeds.
BeginTransfer(fn, out, recipient) ==
  /\ callStack = <<>>
  /\ out.receipt.ok
  /\ chain' = out.chain
  /\ callStack' = <<Frame(fn, chain, out.chain, recipient)>>
  /\ UNCHANGED <<timestamp, receipt, dbVars>>

WithdrawCall(sender, id) ==
  BeginTransfer("withdraw", withdrawOutcome(chain, timestamp, sender, id, TRUE), sender)

ExecuteWithdrawalCall(sender, id, requestId) ==
  BeginTransfer("executeWithdrawal",
                executeWithdrawalOutcome(chain, sender, id, requestId, TRUE), sender)

RefundCall(sender, id) ==
  BeginTransfer("refund", refundOutcome(chain, timestamp, sender, id, TRUE), sender)

\* The recipient's code calls the contract while it is being paid.
NestedCall(out) ==
  /\ callStack # <<>>
  /\ Head(callStack).completed < MaxNested
  /\ chain' = out.chain
  /\ receipt' = out.receipt
  /\ callStack' = <<[Head(callStack) EXCEPT
                       !.completed = IF out.receipt.ok THEN @ + 1 ELSE @]>>
  /\ UNCHANGED <<timestamp, dbVars>>

\* The recipient returns: the function emits its event and ends, or undoes
\* its writes and reverts, which undoes the nested calls' writes with them.
EndTransfer(sent) ==
  /\ callStack # <<>>
  /\ chain' = IF sent THEN chain ELSE Head(callStack).before
  /\ receipt' = IF sent THEN Receipt(Head(callStack).fn, TRUE, NONE)
                ELSE Receipt(Head(callStack).fn, FALSE, transferFailure(Head(callStack).fn))
  /\ callStack' = <<>>
  /\ UNCHANGED <<timestamp, dbVars>>

ReenterWallets == {"creator", "donorA"}
ReenterValueInputs == {1, 2}
ReenterAmountInputs == {1, 2}
ReenterPercentageInputs == {50, 100}

NextReenter ==
  \/ /\ callStack = <<>>
     /\ Len(chain.campaigns) < MaxCampaigns
     /\ CreateCampaign("creator", 2, 1)
  \/ \E sender \in ReenterWallets, value \in ReenterValueInputs :
       /\ callStack = <<>>
       /\ campaignExists(chain, 1) => chain.campaigns[1].pledged + value <= MaxPledged
       /\ DonateToCampaign(sender, 1, value)
  \/ \E amount \in ReenterAmountInputs, percentage \in ReenterPercentageInputs :
       /\ callStack = <<>>
       /\ Len(chain.withdrawalRequests[1]) < MaxWithdrawalRequests
       /\ RequestWithdrawal("creator", 1, amount, percentage)
  \/ \E sender \in ReenterWallets, requestId \in DOMAIN chain.withdrawalRequests[1] :
       callStack = <<>> /\ ApproveWithdrawal(sender, 1, requestId)
  \/ \E sender \in ReenterWallets, requestId \in DOMAIN chain.withdrawalRequests[1] :
       callStack = <<>> /\ RejectWithdrawal(sender, 1, requestId)
  \/ callStack = <<>> /\ Mine
  \/ \E sender \in ReenterWallets : WithdrawCall(sender, 1)
  \/ \E sender \in ReenterWallets, requestId \in DOMAIN chain.withdrawalRequests[1] :
       ExecuteWithdrawalCall(sender, 1, requestId)
  \/ \E sender \in ReenterWallets : RefundCall(sender, 1)
  \/ \E sender \in ReenterWallets, value \in ReenterValueInputs :
       NestedCall(nonReentrant(callStack, chain, "donateToCampaign",
                               donateOutcome(chain, timestamp, sender, 1, value)))
  \/ \E sender \in ReenterWallets, sent \in BOOLEAN :
       NestedCall(nonReentrant(callStack, chain, "withdraw",
                               withdrawOutcome(chain, timestamp, sender, 1, sent)))
  \/ \E sender \in ReenterWallets, requestId \in DOMAIN chain.withdrawalRequests[1],
        sent \in BOOLEAN :
       NestedCall(nonReentrant(callStack, chain, "executeWithdrawal",
                               executeWithdrawalOutcome(chain, sender, 1, requestId, sent)))
  \/ \E sender \in ReenterWallets, sent \in BOOLEAN :
       NestedCall(nonReentrant(callStack, chain, "refund",
                               refundOutcome(chain, timestamp, sender, 1, sent)))
  \/ \E sender \in ReenterWallets, amount \in ReenterAmountInputs,
        percentage \in ReenterPercentageInputs :
       /\ Len(chain.withdrawalRequests[1]) <= MaxWithdrawalRequests
       /\ NestedCall(requestWithdrawalOutcome(chain, timestamp, sender, 1, amount,
                                              percentage))
  \/ \E sender \in ReenterWallets, requestId \in DOMAIN chain.withdrawalRequests[1] :
       NestedCall(approveWithdrawalOutcome(chain, sender, 1, requestId))
  \/ \E sender \in ReenterWallets, requestId \in DOMAIN chain.withdrawalRequests[1] :
       NestedCall(rejectWithdrawalOutcome(chain, sender, 1, requestId))
  \/ \E sent \in BOOLEAN : EndTransfer(sent)

SpecReenter == Init /\ [][NextReenter]_vars

\* ------------------------------------------------------------- SpecQuorum
\* The contract at the scale of the quorum example: two donors give 49, 50
\* or 51 wei each to a campaign with a goal of 50, up to 100 in all; after
\* the deadline the creator asks for a withdrawal at 50% or 51%, the donors
\* vote and the creator executes.
MaxQuorumPledged == 100
QuorumGoalInputs == {50}
QuorumValueInputs == {49, 50, 51}
QuorumAmountInputs == {10, 100}
QuorumPercentageInputs == {50, 51}
QuorumDonors == {"donorA", "donorB"}

NextQuorum ==
  \/ \E goal \in QuorumGoalInputs :
       /\ Len(chain.campaigns) < MaxCampaigns
       /\ CreateCampaign("creator", goal, 1)
  \/ \E sender \in QuorumDonors, value \in QuorumValueInputs :
       /\ campaignExists(chain, 1) => chain.campaigns[1].pledged + value <= MaxQuorumPledged
       /\ DonateToCampaign(sender, 1, value)
  \/ \E amount \in QuorumAmountInputs, percentage \in QuorumPercentageInputs :
       /\ Len(chain.withdrawalRequests[1]) < MaxWithdrawalRequests
       /\ RequestWithdrawal("creator", 1, amount, percentage)
  \/ \E sender \in QuorumDonors, requestId \in DOMAIN chain.withdrawalRequests[1] :
       ApproveWithdrawal(sender, 1, requestId)
  \/ \E sender \in QuorumDonors, requestId \in DOMAIN chain.withdrawalRequests[1] :
       RejectWithdrawal(sender, 1, requestId)
  \/ \E requestId \in DOMAIN chain.withdrawalRequests[1], sent \in BOOLEAN :
       ExecuteWithdrawal("creator", 1, requestId, sent)
  \/ Mine

SpecQuorum == Init /\ [][NextQuorum]_vars

\* ---------------------------------------------------------------- C11
\* What one usage row adds to each total, by its status.
C11_Spent(r) ==
  IF r.status # "SPENT" THEN 0
  ELSE IF r.actual_amount = NULL THEN r.requested_amount ELSE r.actual_amount[1]

C11_Approved(r) == IF r.status \in {"APPROVED", "SPENT"} THEN r.requested_amount ELSE 0

C11_Pending(r) == IF r.status = "PENDING" THEN r.requested_amount ELSE 0

C11_Sum(part) == SumSet(DOMAIN usage_requests, part)

\* The summary GET /api/usage-requests/:campaignId has just reported is the
\* one the five formulas give on the stored rows.
C11_Formulas ==
  response.op = "list" =>
    LET s == response.info
        spent == C11_Sum([i \in DOMAIN usage_requests |-> C11_Spent(usage_requests[i])])
        approved == C11_Sum([i \in DOMAIN usage_requests |-> C11_Approved(usage_requests[i])])
        pending == C11_Sum([i \in DOMAIN usage_requests |-> C11_Pending(usage_requests[i])])
        outstanding == IF approved - spent > 0 THEN approved - spent ELSE 0
        left == current_amount[1] - (spent + outstanding + pending)
    IN /\ s.totalSpent = spent
       /\ s.totalApproved = approved
       /\ s.totalPending = pending
       /\ s.outstandingApproved = outstanding
       /\ s.remainingBalance = IF left > 0 THEN left ELSE 0

\* Scenario A: raised 100, a request of 40 fully spent, a pending one of 30.
C11_ScenarioA ==
  /\ current_amount[1] = 100
  /\ Len(usage_requests) = 2
  /\ \E i, j \in DOMAIN usage_requests :
       /\ usage_requests[i].status = "SPENT"
       /\ usage_requests[i].requested_amount = 40
       /\ usage_requests[i].actual_amount = <<40>>
       /\ usage_requests[j].status = "PENDING"
       /\ usage_requests[j].requested_amount = 30

\* C11: for any set of usage rows the Ledger Accountant returns totalSpent,
\* totalApproved, totalPending, outstandingApproved and remainingBalance as
\* the five formulas give them; raised 100 with 40 spent and 30 pending
\* leaves a remaining balance of 30.
C11_LedgerAccountant ==
  /\ C11_Formulas
  /\ (response.op = "list" /\ C11_ScenarioA) => response.info.remainingBalance = 30

\* Scenario A has been reported.
C11_Witness == response.op = "list" /\ C11_ScenarioA

\* ---------------------------------------------------------------- C12
\* C12: a vote is all-or-nothing: whenever the vote operation ends with an
\* error, whatever the voter, the vote and the statement that failed, the
\* stored votes and the request rows are those from before the operation.
C12_VoteAllOrNothing ==
  \A r \in DOMAIN usage_requests, v \in BOOLEAN, fault \in VoteFaults :
    LET out == voteFaultOutcome(usage_requests, usage_votes, donations, "d1", r, v, fault)
    IN out.reply.code >= 400 =>
         /\ out.votes = usage_votes
         /\ out.rows = usage_requests

\* ---------------------------------------------------------------- C13
\* C13: executeWithdrawal reverts and leaves the whole contract state as it
\* was when the caller is not the creator, when approvalsReceived is below
\* approvalThreshold, or when the contract balance or pledged - totalWithdrawn
\* is below the amount. The contract is also taken with less ether than it
\* holds, down to none, so that the balance check is the one that refuses.
C13_ExecuteRefused ==
  \A id \in DOMAIN chain.campaigns :
    \A requestId \in DOMAIN chain.withdrawalRequests[id] :
      \A sender \in Wallets, sent \in BOOLEAN, held \in 0 .. chain.balance :
        LET c == [chain EXCEPT !.balance = held]
            cam == c.campaigns[id]
            request == c.withdrawalRequests[id][requestId]
            out == executeWithdrawalOutcome(c, sender, id, requestId, sent)
        IN (\/ sender # cam.creator
            \/ request.approvalsReceived < request.approvalThreshold
            \/ c.balance < request.amount
            \/ cam.pledged - cam.totalWithdrawn < request.amount)
           => /\ ~out.receipt.ok
              /\ out.chain = c

\* An execution with enough approvals and enough ether in the contract has
\* just been refused because the campaign's own funds do not cover it.
C13_Witness ==
  /\ receipt = Receipt("executeWithdrawal", FALSE, "Insufficient campaign balance")
  /\ \E id \in DOMAIN chain.campaigns :
       \E requestId \in DOMAIN chain.withdrawalRequests[id] :
         LET request == chain.withdrawalRequests[id][requestId]
         IN /\ request.approvalsReceived >= request.approvalThreshold
            /\ chain.balance >= request.amount
            /\ ~request.executed

\* ---------------------------------------------------------------- C14
\* C14: when an execution passes every check and the value transfer to the
\* creator fails, then once the operation has ended the request's executed
\* flag is false and the campaign's totalWithdrawn is what it was before.
C14_FailedTransferUndone ==
  \A id \in DOMAIN chain.campaigns :
    \A requestId \in DOMAIN chain.withdrawalRequests[id] :
      \A sender \in Wallets :
        LET paid == executeWithdrawalOutcome(chain, sender, id, requestId, TRUE)
            out == executeWithdrawalOutcome(chain, sender, id, requestId, FALSE)
        IN paid.receipt.ok =>
             /\ ~out.receipt.ok
             /\ out.chain.withdrawalRequests[id][requestId].executed = FALSE
             /\ out.chain.campaigns[id].totalWithdrawn = chain.campaigns[id].totalWithdrawn

\* An execution has just ended on a failed transfer.
C14_Witness ==
  /\ receipt = Receipt("executeWithdrawal", FALSE, "Failed to send funds")
  /\ \E id \in DOMAIN chain.campaigns :
       \E requestId \in DOMAIN chain.withdrawalRequests[id] :
         /\ hasEnoughApprovals(chain.withdrawalRequests[id][requestId])
         /\ ~chain.withdrawalRequests[id][requestId].executed
         /\ chain.campaigns[id].totalWithdrawn = 0

\* ---------------------------------------------------------------- C15
\* The amounts of the campaign's executed requests, added up.
C15_ExecutedAmount(c, id) ==
  LET done == {r \in DOMAIN c.withdrawalRequests[id] : c.withdrawalRequests[id][r].executed}
  IN SumSet(done, [r \in done |-> c.withdrawalRequests[id][r].amount])

\* On an executed request every later execution, approval and rejection reverts.
C15_ExecutedIsClosed ==
  \A id \in DOMAIN chain.campaigns :
    \A requestId \in DOMAIN chain.withdrawalRequests[id] :
      chain.withdrawalRequests[id][requestId].executed =>
        \A sender \in Wallets, sent \in BOOLEAN :
          /\ executeWithdrawalOutcome(chain, sender, id, requestId, sent)
               = Revert(chain, "executeWithdrawal",
                        IF sender = chain.campaigns[id].creator
                        THEN "Request already executed" ELSE "Not campaign creator")
          /\ ~approveWithdrawalOutcome(chain, sender, id, requestId).receipt.ok
          /\ approveWithdrawalOutcome(chain, sender, id, requestId).chain = chain
          /\ ~rejectWithdrawalOutcome(chain, sender, id, requestId).receipt.ok
          /\ rejectWithdrawalOutcome(chain, sender, id, requestId).chain = chain

\* Until withdraw() sweeps the campaign, totalWithdrawn is the amounts of the
\* executed requests, each counted once.
C15_CountedOnce ==
  \A id \in DOMAIN chain.campaigns :
    ~chain.campaigns[id].withdrawn =>
      chain.campaigns[id].totalWithdrawn = C15_ExecutedAmount(chain, id)

\* A step never clears an executed flag, and the step that sets it adds the
\* request's amount to totalWithdrawn.
C15_ExecutedStep ==
  \A id \in DOMAIN chain.campaigns :
    \A requestId \in DOMAIN chain.withdrawalRequests[id] :
      LET before == chain.withdrawalRequests[id][requestId]
          after == chain'.withdrawalRequests[id][requestId]
      IN /\ before.executed => after.executed
         /\ (~before.executed /\ after.executed) =>
              chain'.campaigns[id].totalWithdrawn =
                chain.campaigns[id].totalWithdrawn + before.amount

\* C15: a withdrawal request is executed at most once: executed never turns
\* false again, every later execute, approve or reject on the request
\* reverts, and its amount is added to totalWithdrawn exactly once.
C15_ExecutedOnce ==
  /\ [](C15_ExecutedIsClosed /\ C15_CountedOnce)
  /\ [][C15_ExecutedStep]_vars

\* A second execution of an executed request has just been refused.
C15_Witness ==
  /\ receipt = Receipt("executeWithdrawal", FALSE, "Request already executed")
  /\ \E id \in DOMAIN chain.campaigns :
       \E requestId \in DOMAIN chain.withdrawalRequests[id] :
         /\ chain.withdrawalRequests[id][requestId].executed
         /\ chain.campaigns[id].totalWithdrawn = chain.withdrawalRequests[id][requestId].amount

\* ---------------------------------------------------------------- C16
\* C16: in every reachable state, whatever donations, withdrawal requests,
\* votes, executions, withdrawals and refunds came before and whichever of
\* their transfers failed, totalWithdrawn <= pledged for every campaign.
C16_WithdrawnWithinPledged ==
  \A id \in DOMAIN chain.campaigns :
    chain.campaigns[id].totalWithdrawn <= chain.campaigns[id].pledged

\* A request was executed, withdraw() then swept what was left, and an
\* execution attempted afterwards was refused.
C16_Witness ==
  \E id \in DOMAIN chain.campaigns :
    /\ chain.campaigns[id].withdrawn
    /\ chain.campaigns[id].totalWithdrawn = chain.campaigns[id].pledged
    /\ chain.campaigns[id].pledged > 0
    /\ \E requestId \in DOMAIN chain.withdrawalRequests[id] :
         chain.withdrawalRequests[id][requestId].executed
    /\ receipt.fn = "executeWithdrawal"
    /\ ~receipt.ok

\* ---------------------------------------------------------------- C17
\* An address that has voted on a request is refused when it approves or
\* rejects again, and neither tally moves.
C17_SecondVoteRefused ==
  \A id \in DOMAIN chain.campaigns :
    \A requestId \in DOMAIN chain.withdrawalRequests[id] :
      \A sender \in chain.withdrawalRequests[id][requestId].hasVoted :
        LET request == chain.withdrawalRequests[id][requestId]
            approved == approveWithdrawalOutcome(chain, sender, id, requestId)
            rejected == rejectWithdrawalOutcome(chain, sender, id, requestId)
            tallies(c) == <<c.withdrawalRequests[id][requestId].approvalsReceived,
                            c.withdrawalRequests[id][requestId].rejectionReceived>>
        IN /\ ~approved.receipt.ok
           /\ ~rejected.receipt.ok
           /\ tallies(approved.chain) = tallies(chain)
           /\ tallies(rejected.chain) = tallies(chain)

\* The two tallies together hold the contribution of every address that has
\* voted, once.
C17_EachVoterCountedOnce ==
  \A id \in DOMAIN chain.campaigns :
    \A requestId \in DOMAIN chain.withdrawalRequests[id] :
      LET request == chain.withdrawalRequests[id][requestId]
      IN request.approvalsReceived + request.rejectionReceived =
           SumSet(request.hasVoted, [a \in request.hasVoted |-> chain.contributions[id][a]])

\* C17: an address casts at most one vote on a withdrawal request: once it
\* has approved or rejected, its later approvals and rejections revert and
\* change neither approvalsReceived nor rejectionReceived.
C17_OneVotePerAddress == C17_SecondVoteRefused /\ C17_EachVoterCountedOnce

\* An address that approved has just been refused a rejection of the same
\* request.
C17_Witness ==
  /\ receipt = Receipt("rejectWithdrawal", FALSE, "Already voted")
  /\ \E id \in DOMAIN chain.campaigns :
       \E requestId \in DOMAIN chain.withdrawalRequests[id] :
         /\ chain.withdrawalRequests[id][requestId].approvalsReceived > 0
         /\ chain.withdrawalRequests[id][requestId].rejectionReceived = 0
         /\ ~chain.withdrawalRequests[id][requestId].executed

\* ---------------------------------------------------------------- C18
\* No step changes the approvalThreshold of a request that exists.
C18_ThresholdStep ==
  \A id \in DOMAIN chain.campaigns :
    \A requestId \in DOMAIN chain.withdrawalRequests[id] :
      chain'.withdrawalRequests[id][requestId].approvalThreshold =
        chain.withdrawalRequests[id][requestId].approvalThreshold

\* C18: a request's approvalThreshold is fixed when requestWithdrawal creates
\* it and no later operation changes it.
C18_ThresholdFixed == [][C18_ThresholdStep]_vars

\* A request has been voted on by an approver and a rejecter and executed.
C18_Witness ==
  \E id \in DOMAIN chain.campaigns :
    \E requestId \in DOMAIN chain.withdrawalRequests[id] :
      LET request == chain.withdrawalRequests[id][requestId]
      IN /\ request.executed
         /\ request.approvalsReceived > 0
         /\ request.rejectionReceived > 0
         /\ request.approvalThreshold = approvalThreshold(chain.campaigns[id].pledged, 50)

\* ---------------------------------------------------------------- C19
\* A request the creator makes now, when it goes through, carries as
\* threshold the whole part of pledged * percentage / 100.
C19_ThresholdAtCreation ==
  \A id \in DOMAIN chain.campaigns :
    \A amount \in QuorumAmountInputs, percentage \in QuorumPercentageInputs :
      LET cam == chain.campaigns[id]
          out == requestWithdrawalOutcome(chain, timestamp, cam.creator, id, amount,
                                          percentage)
          made == out.chain.withdrawalRequests[id][Len(chain.withdrawalRequests[id]) + 1]
      IN out.receipt.ok =>
           /\ 100 * made.approvalThreshold <= cam.pledged * percentage
           /\ cam.pledged * percentage < 100 * (made.approvalThreshold + 1)
           /\ (cam.pledged = 100 /\ percentage = 51) => made.approvalThreshold = 51

\* Where the balances permit, the creator's execution of an unexecuted
\* request goes through exactly when approvalsReceived >= approvalThreshold.
C19_ExecutableAtThreshold ==
  \A id \in DOMAIN chain.campaigns :
    \A requestId \in DOMAIN chain.withdrawalRequests[id] :
      LET cam == chain.campaigns[id]
          request == chain.withdrawalRequests[id][requestId]
          out == executeWithdrawalOutcome(chain, cam.creator, id, requestId, TRUE)
      IN (/\ ~request.executed
          /\ chain.balance >= request.amount
          /\ cam.pledged - cam.totalWithdrawn >= request.amount)
         => /\ out.receipt.ok <=> request.approvalsReceived >= request.approvalThreshold
            /\ request.approvalThreshold = 51 =>
                 /\ request.approvalsReceived = 51 => out.receipt.ok
                 /\ request.approvalsReceived = 50 => ~out.receipt.ok

\* C19: a request's threshold is pledged at its creation times the
\* percentage, divided by 100 with the fraction dropped, and the creator can
\* execute it exactly when approvalsReceived >= approvalThreshold, balances
\* permitting: pledged 100 at 51% gives 51, approvals of 51 allow the
\* execution and approvals of 50 do not.
C19_Quorum == C19_ThresholdAtCreation /\ C19_ExecutableAtThreshold

\* Pledged 100, threshold 51, approvals of exactly 51, and the execution has
\* just gone through.
C19_Witness ==
  /\ receipt = Receipt("executeWithdrawal", TRUE, NONE)
  /\ \E id \in DOMAIN chain.campaigns :
       \E requestId \in DOMAIN chain.withdrawalRequests[id] :
         /\ chain.campaigns[id].pledged = 100
         /\ chain.withdrawalRequests[id][requestId].approvalThreshold = 51
         /\ chain.withdrawalRequests[id][requestId].approvalsReceived = 51
         /\ chain.withdrawalRequests[id][requestId].executed

\* ---------------------------------------------------------------- C20
\* The conditions under which requestWithdrawal may create a request.
C20_Conditions(c, now, sender, id, amount, percentage) ==
  /\ id \in DOMAIN c.campaigns
  /\ sender = c.campaigns[id].creator
  /\ c.campaigns[id].pledged >= c.campaigns[id].goal
  /\ now > c.campaigns[id].deadline
  /\ amount > 0
  /\ amount <= c.campaigns[id].pledged - c.campaigns[id].totalWithdrawn
  /\ 0 < percentage
  /\ percentage <= 100

\* C20: requestWithdrawal creates a request only when the caller is the
\* creator, pledged >= goal, the deadline has passed, amount > 0,
\* amount <= pledged - totalWithdrawn and 0 < percentage <= 100; when one of
\* these fails it reverts, and the number of requests and every request are
\* as before.
C20_RequestOnlyWhenAllowed ==
  \A sender \in Wallets, id \in CampaignIds, amount \in WeiInputs,
     percentage \in PercentageInputs :
    LET out == requestWithdrawalOutcome(chain, timestamp, sender, id, amount, percentage)
    IN /\ ~C20_Conditions(chain, timestamp, sender, id, amount, percentage) =>
            /\ ~out.receipt.ok
            /\ out.chain.withdrawalRequests = chain.withdrawalRequests
       /\ out.receipt.ok =>
            /\ Len(out.chain.withdrawalRequests[id]) = Len(chain.withdrawalRequests[id]) + 1
            /\ \A r \in DOMAIN chain.withdrawalRequests[id] :
                 out.chain.withdrawalRequests[id][r] = chain.withdrawalRequests[id][r]

\* A request by the creator of a funded campaign, after the deadline, has
\* just been refused for its percentage, and the campaign has no request.
C20_Witness ==
  /\ receipt = Receipt("requestWithdrawal", FALSE, "Invalid percentage")
  /\ \E id \in DOMAIN chain.campaigns :
       /\ chain.withdrawalRequests[id] = <<>>
       /\ chain.campaigns[id].pledged >= chain.campaigns[id].goal
       /\ timestamp > chain.campaigns[id].deadline

\* ---------------------------------------------------------------- C21
\* C21: while the value transfer of executeWithdrawal, withdraw or refund is
\* in progress, no call back into the contract has run to completion, and
\* the contract is as it was when the recipient was handed control.
C21_NoNestedCompletion ==
  callStack # <<>> =>
    /\ Head(callStack).completed = 0
    /\ chain = Head(callStack).mid

\* ---------------------------------------------------------------- C22
\* C22: rejections never block an execution: an unexecuted request with
\* approvalsReceived >= approvalThreshold, in a contract and a campaign that
\* both cover its amount, is executed by the creator whatever its
\* rejectionReceived is (the value it has, and any other up to the pledged
\* total put in its place).
C22_RejectionsNeverBlock ==
  \A id \in DOMAIN chain.campaigns :
    \A requestId \in DOMAIN chain.withdrawalRequests[id] :
      \A rejections \in 0 .. chain.campaigns[id].pledged :
        LET c == [chain EXCEPT
                    !.withdrawalRequests[id][requestId].rejectionReceived = rejections]
            cam == c.campaigns[id]
            request == c.withdrawalRequests[id][requestId]
        IN (/\ ~request.executed
            /\ request.approvalsReceived >= request.approvalThreshold
            /\ c.balance >= request.amount
            /\ cam.pledged - cam.totalWithdrawn >= request.amount)
           => /\ executeWithdrawalOutcome(chain, cam.creator, id, requestId, TRUE).receipt.ok
              /\ executeWithdrawalOutcome(c, cam.creator, id, requestId, TRUE).receipt.ok

\* A request with more rejections than approvals has just been executed.
C22_Witness ==
  /\ receipt = Receipt("executeWithdrawal", TRUE, NONE)
  /\ \E id \in DOMAIN chain.campaigns :
       \E requestId \in DOMAIN chain.withdrawalRequests[id] :
         LET request == chain.withdrawalRequests[id][requestId]
         IN /\ request.executed
            /\ request.rejectionReceived > request.approvalsReceived

\* ---------------------------------------------------------------- C23
\* A step that raises a campaign's totalWithdrawn sets the executed flag of
\* one of its requests whose approvals had reached the threshold.
C23_ReleaseStep ==
  \A id \in DOMAIN chain.campaigns :
    chain'.campaigns[id].totalWithdrawn > chain.campaigns[id].totalWithdrawn =>
      \E requestId \in DOMAIN chain.withdrawalRequests[id] :
        /\ ~chain.withdrawalRequests[id][requestId].executed
        /\ chain'.withdrawalRequests[id][requestId].executed
        /\ chain.withdrawalRequests[id][requestId].approvalsReceived >=
             chain.withdrawalRequests[id][requestId].approvalThreshold

\* C23: campaign funds reach the creator only after a quorum endorsed the
\* spend: every increase of a campaign's totalWithdrawn is the execution of
\* a withdrawal request whose approvalsReceived >= approvalThreshold then.
C23_ReleaseOnlyByQuorum == [][C23_ReleaseStep]_vars


\* C24: at most one reconciliation pass is in flight at any time, and a call
\* of syncCampaignStatuses (timer tick, startup timeout or manual trigger)
\* that arrives while a pass has not finished returns at once: it starts no
\* pass, so it reads nothing from the ledger, and it leaves the mirrored rows
\* and the pass in flight as they are.
C24_CallInFlightDoesNothing ==
  sync.passes # <<>> =>
    LET out == invokeSync(sync)
    IN /\ out.passes = sync.passes
       /\ out.mirror = sync.mirror
       /\ out.isSyncing = sync.isSyncing
       /\ out.lastSync = sync.lastSync

C24_OnePassInFlight ==
  /\ Len(sync.passes) <= 1
  /\ sync.isSyncing <=> sync.passes # <<>>
  /\ C24_CallInFlightDoesNothing

C24_Witness ==
  /\ sync.lastCall = "skipped_in_flight"
  /\ Len(sync.passes) = 1
  /\ sync.passes[1].pc = "update"

\* C25: within one pass, the failure of the ledger lookup or of the mirror
\* update for one campaign does not abort the pass: a pass that got its batch
\* goes through every campaign of it, so each campaign before the one being
\* worked on has been dealt with, and a pass that left the loop has fetched
\* every campaign of the batch.
C25_FailureDoesNotAbort ==
  /\ \A k \in DOMAIN sync.passes :
       sync.passes[k].pc # "select" =>
         \A c \in LinkedCampaigns :
           (c < sync.passes[k].i) <=> (sync.passes[k].results[c] # "pending")
  /\ sync.lastPass.ended = "completed" =>
       \A c \in LinkedCampaigns : sync.lastPass.results[c] # "pending"
  /\ sync.lastPass.ended = "select_failed" => sync.lastPass.results = NoResults

C25_Witness ==
  /\ sync.lastPass.ended = "completed"
  /\ sync.lastPass.results[1] \in {"threw", "update_failed"}
  /\ sync.lastPass.results[2] = "written"
  /\ sync.mirror[2].current_amount = OneEther

\* C26: for every campaign a pass syncs, the row it writes has status
\* completed if the ledger says withdrawn; otherwise, once the deadline has
\* passed, completed when pledged >= goal on the ledger and failed when
\* pledged < goal; otherwise active; and its raised amount, goal, deadline
\* and withdrawn flag are the ledger's values.
C26_LedgerStatus(answer, now) ==
  IF answer.withdrawn THEN "completed"
  ELSE IF answer.deadline < now
  THEN IF weiLess(answer.pledged, answer.goal) THEN "failed" ELSE "completed"
  ELSE "active"

C26_MirrorMatchesLedger ==
  \A k \in DOMAIN sync.passes :
    sync.passes[k].pc = "lookup" =>
      \A answer \in SyncLedgerAnswers :
        answer.kind = "found" =>
          LET row == lookupReturns(sync, k, answer).passes[k].row
          IN /\ row.status = C26_LedgerStatus(answer, sync.clock)
             /\ row.current_amount = answer.pledged
             /\ row.blockchain_goal = answer.goal
             /\ row.deadline = answer.deadline
             /\ row.is_withdrawn = (IF answer.withdrawn THEN 1 ELSE 0)

\* C27: one unresponsive ledger lookup cannot stall the reconciliation:
\* every pass that starts eventually finishes and clears the in-flight flag,
\* even when a lookup never returns.
C27_PassEventuallyFinishes == sync.isSyncing ~> ~sync.isSyncing

\* C28: when the ledger lookup for a campaign fails, or the ledger reports
\* that the campaign does not exist, the pass leaves the campaign's mirrored
\* fields (current_amount, blockchain_goal, deadline, status, is_withdrawn)
\* as they were: it writes nothing at that point, issues no UPDATE for the
\* campaign and moves on, and an UPDATE only ever writes the row of the
\* campaign whose lookup succeeded.
C28_NoUpdateIssued(out, k, i) ==
  IF i = MaxLinked
  THEN out.passes = <<>>
  ELSE out.passes[k].pc = "lookup" /\ out.passes[k].i = i + 1

C28_FailedLookupLeavesRow ==
  \A k \in DOMAIN sync.passes :
    /\ sync.passes[k].pc = "lookup" =>
         \A answer \in SyncLedgerAnswers :
           answer.kind \in {"throws", "absent"} =>
             LET out == lookupReturns(sync, k, answer)
             IN /\ out.mirror = sync.mirror
                /\ C28_NoUpdateIssued(out, k, sync.passes[k].i)
    /\ sync.passes[k].pc = "update" =>
         \A ok \in BOOLEAN, c \in LinkedCampaigns :
           c # sync.passes[k].i =>
             updateReturns(sync, k, ok).mirror[c] = sync.mirror[c]

C28_Witness ==
  /\ sync.lastPass.ended = "completed"
  /\ sync.lastPass.results[1] = "absent"
  /\ sync.lastPass.results[2] = "written"
  /\ sync.mirror[1].status = "active"
  /\ sync.mirror[1].current_amount = Wei(0, 0)
  /\ sync.mirror[2].is_withdrawn = 1

\* C29: every tick of the interval timer that finds no pass in flight
\* starts a pass (so that, with a reachable ledger, the mirror is refreshed
\* at least once per SYNC_INTERVAL).
C29_TickStep ==
  (sync'.nextTick # sync.nextTick /\ ~sync.isSyncing) =>
    /\ sync'.lastCall = "started"
    /\ sync'.isSyncing
    /\ Len(sync'.passes) = 1

C29_TickStartsPass == [][C29_TickStep]_vars

\* C30: every eligibility check reports canWithdraw = (raised >= goal) AND
\* NOT alreadyWithdrawn for every campaign state, whether or not the
\* deadline has passed, and returns goalReached, deadlinePassed and
\* isWithdrawn alongside.
C30_CanWithdraw ==
  eligibility.by # "none" =>
    LET ledger == eligibility.ledger
        report == eligibility.report
    IN /\ report.canWithdraw = (~weiLess(ledger.pledged, ledger.goal) /\ ~ledger.withdrawn)
       /\ report.goalReached = ~weiLess(ledger.pledged, ledger.goal)
       /\ report.deadlinePassed = (eligibility.now >= ledger.deadline)
       /\ report.isWithdrawn = JsBoolean(ledger.withdrawn)

\* C31: a stale mirror never produces an incorrect spend decision: whenever
\* POST /api/usage-requests accepts a request, the mirrored raised amount it
\* checked against is at most the ledger's pledged total, and the requested
\* amount is at most the pledged total less the funds already committed.
C31_Committed ==
  LET summary == calculateUsageFinancials(current_amount, usage_requests, 1)
  IN summary.totalSpent + summary.outstandingApproved + summary.totalPending

C31_StaleMirrorHarmless ==
  \A a \in AmountInputs :
    createOutcome(current_amount, usage_requests, "owner", 1, a).reply.code = 200 =>
      /\ current_amount[1] <= authoritativePledged(chain, 1)
      /\ a <= authoritativePledged(chain, 1) - C31_Committed

\* C32: under any interleaving of concurrent votes and mark-spent operations
\* on one usage request, its status only moves forward along
\* PENDING -> APPROVED -> SPENT: a SPENT request never becomes APPROVED or
\* PENDING again and an APPROVED request never becomes PENDING again.
C32_Rank(status) ==
  IF status = "PENDING" THEN 0 ELSE IF status = "APPROVED" THEN 1 ELSE 2

C32_ForwardStep ==
  \A r \in DOMAIN usage_requests :
    C32_Rank(usage_requests'[r].status) >= C32_Rank(usage_requests[r].status)

C32_StatusOnlyForward == [][C32_ForwardStep]_vars

\* C33: no approval is lost to concurrency: once every concurrent vote
\* operation on a request has completed (its upsert and its own evaluation),
\* if the stored approving votes are more than half of the campaign's donors,
\* or their weighted amount more than half of the donated total, the request
\* is no longer PENDING.
C33_AllCompleted == \A p \in Handlers : handlers[p].pc = "idle"

C33_Majority(r) ==
  LET approving == {v \in usage_votes : v.usage_request_id = r /\ v.vote = 1}
      s == getDonationSummary(donations, usage_requests[r].campaign_id)
  IN \/ 2 * Cardinality(approving) > s.totalDonors
     \/ 2 * SumSet(approving, [v \in approving |-> v.donated_amount]) > s.totalAmount

C33_NoApprovalLost ==
  \A r \in DOMAIN usage_requests :
    (C33_AllCompleted /\ C33_Majority(r)) => usage_requests[r].status # "PENDING"

C33_Witness ==
  /\ C33_AllCompleted
  /\ C33_Majority(1)
  /\ Cardinality({v \in usage_votes : v.vote = 1}) = 2
  /\ usage_requests[1].status = "APPROVED"
  /\ response.op = "vote"

\* C34: a successful mark-spent leaves the campaign's remainingBalance
\* unchanged for every accepted actual amount: the unspent part of the
\* request (requested - actual) stays committed as outstandingApproved.
C34_MarkSpentKeepsRemaining ==
  \A r \in DOMAIN usage_requests, a \in AmountInputs :
    LET out == markSpentOutcome(current_amount, usage_requests, "owner", r, a)
        c == usage_requests[r].campaign_id
        before == calculateUsageFinancials(current_amount, usage_requests, c)
        after == calculateUsageFinancials(current_amount, out.rows, c)
    IN out.reply.code = 200 =>
         /\ after.remainingBalance = before.remainingBalance
         /\ after.outstandingApproved = before.outstandingApproved - a
         /\ after.totalSpent = before.totalSpent + a

C34_Witness ==
  /\ response.op = "markSpent"
  /\ response.code = 200
  /\ \E r \in DOMAIN usage_requests :
       /\ usage_requests[r].status = "SPENT"
       /\ normalizeNumber(usage_requests[r].actual_amount) < usage_requests[r].requested_amount
       /\ calculateUsageFinancials(current_amount, usage_requests, 1).outstandingApproved > 0

\* C35: only contributors' votes count toward approval: for every usage
\* request, the approving vote count the evaluator uses is at most the
\* campaign's distinct donor count and the approving weighted amount is at
\* most the campaign's donated total, also after votes by administrators and
\* after further donations.
C35_OnlyContributorsCount ==
  \A r \in DOMAIN usage_requests :
    LET s == getDonationSummary(donations, usage_requests[r].campaign_id)
    IN /\ approvalsOf(usage_votes, r) <= s.totalDonors
       /\ approvedWeightedOf(usage_votes, r) <= s.totalAmount

\* C36: for every withdrawal request on the ledger, in every reachable
\* state, approvalsReceived + rejectionReceived is at most the campaign's
\* pledged total and approvalThreshold is at most pledged, so a threshold of
\* 100 percent can be reached by unanimous approval.
C36_VotesWithinPledged ==
  \A id \in DOMAIN chain.campaigns :
    \A requestId \in DOMAIN chain.withdrawalRequests[id] :
      LET request == chain.withdrawalRequests[id][requestId]
      IN /\ request.approvalsReceived + request.rejectionReceived
              <= chain.campaigns[id].pledged
         /\ request.approvalThreshold <= chain.campaigns[id].pledged

C36_Witness ==
  \E id \in DOMAIN chain.campaigns :
    \E requestId \in DOMAIN chain.withdrawalRequests[id] :
      LET request == chain.withdrawalRequests[id][requestId]
      IN /\ request.approvalThreshold = chain.campaigns[id].pledged
         /\ request.approvalsReceived > 0
         /\ request.rejectionReceived > 0
         /\ request.approvalsReceived + request.rejectionReceived
              = chain.campaigns[id].pledged

\* C37: on the ledger, refunds and releases exclude each other per campaign.
\* A campaign that has released funds (withdraw or executeWithdrawal) or has
\* a withdrawal request has met its goal after its deadline and stays so; a
\* refund (the only step that lowers pledged) is paid only by a campaign
\* that missed its goal at its deadline, which stays so ever after: no
\* campaign has both a refund and a release, and none with a withdrawal
\* request has a refund.
C37_Released(c, id) ==
  \/ c.campaigns[id].totalWithdrawn > 0
  \/ c.campaigns[id].withdrawn
  \/ c.withdrawalRequests[id] # <<>>

C37_Failed(c, now, id) ==
  now > c.campaigns[id].deadline /\ c.campaigns[id].pledged < c.campaigns[id].goal

C37_ReleasedMetGoal ==
  \A id \in DOMAIN chain.campaigns :
    C37_Released(chain, id) =>
      /\ chain.campaigns[id].pledged >= chain.campaigns[id].goal
      /\ timestamp > chain.campaigns[id].deadline

C37_Step ==
  \A id \in DOMAIN chain.campaigns :
    /\ chain'.campaigns[id].pledged < chain.campaigns[id].pledged =>
         C37_Failed(chain, timestamp, id) /\ ~C37_Released(chain, id)
    /\ C37_Failed(chain, timestamp, id) =>
         C37_Failed(chain', timestamp', id) /\ ~C37_Released(chain', id)
    /\ C37_Released(chain, id) =>
         /\ C37_Released(chain', id)
         /\ chain'.campaigns[id].pledged = chain.campaigns[id].pledged

C37_RefundsExcludeReleases == []C37_ReleasedMetGoal /\ [][C37_Step]_vars

C37_Witness ==
  /\ receipt = Receipt("refund", TRUE, NONE)
  /\ \E id \in DOMAIN chain.campaigns :
       /\ C37_Failed(chain, timestamp, id)
       /\ ~C37_Released(chain, id)
       /\ chain.campaigns[id].goal > 0

\* C38: the ledger contract stays solvent: in every reachable state its
\* balance is at least the sum over all campaigns of pledged - totalWithdrawn,
\* after any sequence of donations, refunds, full withdrawals and partial
\* executions, including ones whose transfer fails.
C38_Solvent ==
  /\ chain.balance >= bookBalance(chain)
  /\ \A id \in DOMAIN chain.campaigns : getAvailableBalance(chain, id) >= 0

C38_Witness ==
  /\ receipt = Receipt("withdraw", FALSE, transferFailure("withdraw"))
  /\ chain.balance = bookBalance(chain)
  /\ \E id \in DOMAIN chain.campaigns :
       /\ chain.campaigns[id].totalWithdrawn > 0
       /\ chain.campaigns[id].pledged > chain.campaigns[id].totalWithdrawn

\* C39: the Eligibility Checker agrees with the ledger: whenever
\* canWithdrawFunds reports canWithdraw = true for a campaign, a withdraw or
\* a requestWithdrawal sent by the creator against the same ledger state
\* does not revert on the goal, deadline or already-withdrawn condition.
C39_Refusals == {"Goal not reached", "Deadline not yet reached", "Already withdrawn"}

C39_CheckerAgreesWithLedger ==
  \A id \in DOMAIN chain.campaigns :
    LET creator == chain.campaigns[id].creator
        report == canWithdrawFunds(getCampaignFromBlockchain(ledgerOf(chain, id)),
                                   timestamp * 1000)
    IN report.canWithdraw =>
         /\ withdrawOutcome(chain, timestamp, creator, id, TRUE).receipt.reason
              \notin C39_Refusals
         /\ requestWithdrawalOutcome(chain, timestamp, creator, id, 1, 100).receipt.reason
              \notin C39_Refusals
====
